---- MODULE Spec2Model ----
(***************************************************************************)
(* Subscription service and cache sync layer of ptt-alertor.               *)
(*                                                                         *)
(* The durable store (subscriptions, subscription_stats, role_limits,      *)
(* users, notification_bindings), the Redis cache (boards, <kind>:<board>: *)
(* subs, user:<account>) and the goroutines started by Create, Update and  *)
(* Delete are modelled as a state machine.  Strings the code parses        *)
(* (keyword values, pushsum values, chat ids) are sequences of             *)
(* one-character strings so that the parsers are computed, not assumed.    *)
(***************************************************************************)
EXTENDS Integers, Sequences, FiniteSets, Bags, TLC

(***************************************************************************)
(* Bounds                                                                  *)
(***************************************************************************)
\* requests the clients send in a run; it also bounds the handlers in flight
\* and the ids the SERIAL column hands out
MaxOps == 2

\* goroutines in flight, counting the two that every handler past its checks
\* is going to start
MaxTasks == 4
\* requests received in a run of the enrolment flows
MaxBindOps == 3
\* the clock stops after this many minutes, and moves this many at a time
MaxTime == 15
TickMinutes == 5
\* messageWorker goroutines in the pool
NumWorkers == 2

\* the push_sum an article can reach, and the rounds of the push-count poller
MaxPushSum == 3
MaxPolls == 3
\* transactions of Save begun in a run
MaxTx == 2
\* the count a subscription_stats row can have
MaxCount == 2
\* web-app bind tokens the bot hands out in a run
MaxTokens == 2

(***************************************************************************)
(* Strings                                                                 *)
(***************************************************************************)
RegexpPrefix == <<"r", "e", "g", "e", "x", "p", ":">>

HasPrefix(s, p) == Len(s) >= Len(p) /\ SubSeq(s, 1, Len(p)) = p

Contains(s, c) == \E i \in 1..Len(s) : s[i] = c

RECURSIVE TrimLeft(_)
TrimLeft(s) == IF s # <<>> /\ Head(s) = " " THEN TrimLeft(Tail(s)) ELSE s

RECURSIVE TrimRight(_)
TrimRight(s) ==
    IF s # <<>> /\ s[Len(s)] = " " THEN TrimRight(SubSeq(s, 1, Len(s) - 1)) ELSE s

TrimSpace(s) == TrimRight(TrimLeft(s))

\* strings.Split(s, sep) for a one-character separator
RECURSIVE Split(_, _)
Split(s, sep) ==
    IF ~Contains(s, sep) THEN <<s>>
    ELSE LET i == CHOOSE j \in 1..Len(s) :
                      s[j] = sep /\ \A k \in 1..(j - 1) : s[k] # sep
         IN  <<SubSeq(s, 1, i - 1)>> \o Split(SubSeq(s, i + 1, Len(s)), sep)

\* the loop "part = TrimSpace(part); if part != "" { append }"
RECURSIVE TrimmedNonEmpty(_)
TrimmedNonEmpty(parts) ==
    IF parts = <<>> THEN <<>>
    ELSE LET p == TrimSpace(Head(parts))
         IN  (IF p # <<>> THEN <<p>> ELSE <<>>) \o TrimmedNonEmpty(Tail(parts))

parseKeywordValues(value) ==
    IF HasPrefix(value, <<"!">>) THEN <<>>
    ELSE IF HasPrefix(value, RegexpPrefix)
         THEN TrimmedNonEmpty(
                  Split(SubSeq(value, Len(RegexpPrefix) + 1, Len(value)), "|"))
    ELSE IF Contains(value, "&") THEN TrimmedNonEmpty(Split(value, "&"))
    ELSE <<value>>

Digits == <<"0", "1", "2", "3", "4", "5", "6", "7", "8", "9">>

IsDigit(c) == \E i \in 1..10 : Digits[i] = c

DigitVal(c) == (CHOOSE i \in 1..10 : Digits[i] = c) - 1

\* value of the longest run of decimal digits at the start of s, -1 if none
RECURSIVE ScanDigits(_, _, _)
ScanDigits(s, acc, seen) ==
    IF s # <<>> /\ IsDigit(Head(s))
    THEN ScanDigits(Tail(s), acc * 10 + DigitVal(Head(s)), TRUE)
    ELSE IF seen THEN acc ELSE -1

\* fmt.Sscanf(value, "%d", &num): num stays 0 when nothing is scanned
Sscanf(value) ==
    LET s    == TrimLeft(value)
        neg  == s # <<>> /\ Head(s) = "-"
        body == IF s # <<>> /\ Head(s) \in {"-", "+"} THEN Tail(s) ELSE s
        n    == ScanDigits(body, 0, FALSE)
    IN  IF n < 0 THEN 0 ELSE IF neg THEN 0 - n ELSE n

parsePushSum(value) ==
    LET num == Sscanf(value)
    IN  [Up   |-> IF num > 0 THEN num ELSE 0,
         Down |-> IF num < 0 THEN num ELSE 0]

\* strconv.ParseInt(s, 10, 64): the whole string must be a signed number
ParseIntOK(s) ==
    LET body == IF s # <<>> /\ Head(s) \in {"-", "+"} THEN Tail(s) ELSE s
    IN  body # <<>> /\ \A i \in 1..Len(body) : IsDigit(body[i])

ParseInt(s) == Sscanf(s)

(***************************************************************************)
(* Universe of the runs                                                    *)
(***************************************************************************)
Users == {1, 2}

\* boards for which PTT serves a feed; "zz" is a name PTT answers 404 for
ExistingBoards == {"b1", "b2"}

Req(b, k, v) == [board |-> b, subType |-> k, value |-> v]

\* a request body: board, sub_type, value and (read by Update only) enabled
Body(b, k, v, e) == [board |-> b, subType |-> k, value |-> v, enabled |-> e]

\* The request bodies the clients send in a run, one workload per run:
\* a change of board, a push and a boo threshold on one board, a board PTT
\* does not have, a subscription that is switched off and on, the three
\* forms of keyword that parseKeywordValues tells apart, and an article.
WorkloadBoards ==
    {Body("b1", "keyword", <<"a">>, TRUE), Body("b2", "keyword", <<"a">>, TRUE)}

WorkloadAnd == {Body("b1", "keyword", <<"a", "&", "b">>, TRUE)}

WorkloadRegexp ==
    {Body("b1", "keyword", RegexpPrefix \o <<"a", "|", "b">>, TRUE)}

WorkloadExclude == {Body("b1", "keyword", <<"!", "a">>, TRUE)}

\* an article a user follows from the chat; the value is the article code
WorkloadArticle == {Body("b1", "article", <<"M">>, TRUE)}

WorkloadPushSum ==
    {Body("b1", "pushsum", <<"+", "5">>, TRUE),
     Body("b1", "pushsum", <<"-", "3">>, TRUE)}

WorkloadUnknown ==
    {Body("b1", "author", <<"a">>, TRUE), Body("zz", "author", <<"a">>, TRUE)}

WorkloadDisable ==
    {Body("b1", "author", <<"a">>, TRUE), Body("b1", "author", <<"a">>, FALSE)}

Workloads == {WorkloadBoards, WorkloadPushSum, WorkloadUnknown, WorkloadDisable,
              WorkloadAnd, WorkloadRegexp, WorkloadExclude, WorkloadArticle}

\* the subscription user 1 may already hold when a run starts
Seed(w) ==
    CHOOSE r \in w : /\ r.board = "b1" /\ r.enabled
                     /\ \A q \in w : Len(r.value) <= Len(q.value)

\* the role and the max_subscriptions values the admin role API is called with
ManagedRoles == {"user"}
LimitValues == {1, 3}

DefaultMaxSubscriptions == 3

VARIABLES
    workload,     \* the requests clients send in this run
    users,        \* users table: id -> [role, enabled]
    roleLimits,   \* role_limits table: role -> max_subscriptions
    bindings,     \* notification_bindings: the set of its rows
    subs,         \* subscriptions table, most recently updated row first
    nextID,       \* next value of the subscriptions id sequence
    stats,        \* subscription_stats table: <<board, sub_type, value>> -> count
    cacheBoards,  \* Redis set "boards"
    cacheSubs,    \* Redis sets "<kind>:<board>:subs" as <<kind, board, account>>
    cacheUser,    \* Redis keys "user:<account>": account -> profile
    calls,        \* handler invocations between their checks and their write
    tasks,        \* goroutines started by the handlers, not yet finished
    result,       \* what the handler that returned last gave its caller
    nOps,         \* requests received so far
    statDone,     \* history: the stats goroutine of an Update that finished last
    roundTrip,    \* history: the state before the Create being followed
    now,          \* CURRENT_TIMESTAMP / time.Now(), in minutes
    issued,       \* bind codes made so far: issued[n] is when code n was made
    workers,      \* messageWorker goroutines: what each one is sending
    delivered,    \* history: what sendMessage did with the messages of each
                  \* account, in the order of the sends
    proc,         \* the process: "running", "crashed" by a panic, or "exited"
    alerts,       \* the alerts-sent counter
    feed,         \* the articles of the board: where each one is and its push_sum
    notified,     \* push-count poller: <<account, code>> already notified
    emitted,      \* history: the messages the push-count poller made
    firstOver,    \* history: the poll that first saw the article at the threshold
    nPolls,       \* rounds of the push-count poller so far
    db,           \* committed rows of the boards, articles and comments tables
    txs,          \* the transactions of Save, open and ended, in order of Begin
    saved,        \* history: the comment list of the Save that committed last
    listed,       \* the last answer of the Top-N read and what was asked
    tokens        \* Redis keys "webapp:bind:<token>": token -> chat id

vars == <<workload, users, roleLimits, bindings, subs, nextID, stats,
          cacheBoards, cacheSubs, cacheUser, calls, tasks, result, nOps,
          statDone, roundTrip, now, issued, workers, delivered, proc, alerts,
          feed, notified, emitted, firstOver, nPolls, db, txs, saved,
          listed, tokens>>

\* what the subscription handlers and their goroutines never touch
\* the push-count poller
pushsum == <<feed, notified, emitted, firstOver, nPolls>>

\* the article store
database == <<db, txs, saved>>

aside == <<now, issued, workers, delivered, proc, alerts, pushsum, database, listed, tokens>>

ghosts == <<statDone, roundTrip>>

store == <<users, roleLimits, bindings, subs, nextID>>
cache == <<cacheBoards, cacheSubs, cacheUser>>

(***************************************************************************)
(* Store queries                                                           *)
(***************************************************************************)
GetWebAccount(userID) == <<"web_", userID>>

Rows(s) == {s[i] : i \in 1..Len(s)}

\* SELECT ... WHERE user_id = $1 ORDER BY updated_at DESC
ListByUserID(s, userID) == SelectSeq(s, LAMBDA r : r.user = userID)

CountByUserID(s, userID) == Len(ListByUserID(s, userID))

FindByID(s, id) == {r \in Rows(s) : r.id = id}

GetMaxSubscriptions(role) ==
    IF role \in DOMAIN roleLimits THEN roleLimits[role] ELSE DefaultMaxSubscriptions

\* CheckLimit comparing with > : one subscription more than the maximum
CheckLimitOneMore(userID, role) ==
    LET maxSubs == GetMaxSubscriptions(role)
    IN  IF maxSubs < 0 THEN "ok"
        ELSE IF CountByUserID(subs, userID) > maxSubs
             THEN "ErrSubscriptionLimitReached"
        ELSE "ok"

CheckLimit(userID, role) ==
    LET maxSubs == GetMaxSubscriptions(role)
    IN  IF maxSubs < 0 THEN "ok"
        ELSE IF CountByUserID(subs, userID) >= maxSubs
             THEN "ErrSubscriptionLimitReached"
        ELSE "ok"

CheckBoardExist(board) == board \in ExistingBoards

\* a subscriptions table without its UNIQUE constraint
UniqueConflictNever(s, userID, r, except) == FALSE

\* UNIQUE(user_id, board, sub_type, value), ignoring the row with id = except
UniqueConflict(s, userID, r, except) ==
    \E x \in Rows(s) : /\ x.id # except
                       /\ x.user = userID
                       /\ x.board = r.board
                       /\ x.subType = r.subType
                       /\ x.value = r.value

Row(id, userID, r, enabled) ==
    [id |-> id, user |-> userID, board |-> r.board, subType |-> r.subType,
     value |-> r.value, enabled |-> enabled]

Triple(x) == Req(x.board, x.subType, x.value)

\* a row of notification_bindings; service_id '' is <<>>, a NULL bind_code
\* and a NULL bind_code_expires_at are 0
Binding(userID, service, serviceID, code, expiresAt, enabled) ==
    [user |-> userID, service |-> service, serviceID |-> serviceID,
     bindCode |-> code, expiresAt |-> expiresAt, enabled |-> enabled]

ServiceTelegram == "telegram"

\* the rows FindByUserAndService selects from
BindingsOf(userID, service) ==
    {b \in bindings : b.user = userID /\ b.service = service}

\* the service_id the caller reads off the Telegram binding of the user,
\* <<>> when the query returns no row
FindByUserAndService(userID) ==
    IF BindingsOf(userID, ServiceTelegram) = {} THEN <<>>
    ELSE (CHOOSE b \in BindingsOf(userID, ServiceTelegram) : TRUE).serviceID

(***************************************************************************)
(* Stats                                                                   *)
(***************************************************************************)
StatKey(b, k, v) == <<b, k, v>>

StatCount(st, key) == IF key \in DOMAIN st THEN st[key] ELSE 0

\* an Increment whose INSERT gives way to the row that is there
IncrementDoNothing(st, key) ==
    IF key \in DOMAIN st THEN st
    ELSE [k \in DOMAIN st \cup {key} |-> IF k = key THEN 1 ELSE st[k]]

\* INSERT ... VALUES (.., 1) ON CONFLICT DO UPDATE SET count = count + 1
Increment(st, key) ==
    IF key \in DOMAIN st
    THEN [st EXCEPT ![key] = @ + 1]
    ELSE [k \in DOMAIN st \cup {key} |-> IF k = key THEN 1 ELSE st[k]]

Max(a, b) == IF a >= b THEN a ELSE b

\* a Decrement without GREATEST
DecrementBelowZero(st, key) ==
    IF key \in DOMAIN st THEN [st EXCEPT ![key] = @ - 1] ELSE st

\* UPDATE ... SET count = GREATEST(count - 1, 0) WHERE ...
Decrement(st, key) ==
    IF key \in DOMAIN st THEN [st EXCEPT ![key] = Max(@ - 1, 0)] ELSE st

StatOp(inc, b, k, v) == [inc |-> inc, key |-> StatKey(b, k, v)]

\* syncStats without its return for the article kind
syncStatsEveryKind(board, subType, value, increment) ==
    LET values == IF subType = "keyword" THEN parseKeywordValues(value) ELSE <<value>>
    IN  [i \in 1..Len(values) |-> StatOp(increment, board, subType, values[i])]

\* the Increment/Decrement calls one syncStats(board, subType, value, inc) makes
syncStats(board, subType, value, increment) ==
    IF subType = "article" THEN <<>>
    ELSE LET values == IF subType = "keyword" THEN parseKeywordValues(value)
                       ELSE <<value>>
         IN  [i \in 1..Len(values) |-> StatOp(increment, board, subType, values[i])]

(***************************************************************************)
(* Cache profile                                                           *)
(***************************************************************************)
ValuesOf(list, board, kind) ==
    LET sel == SelectSeq(list, LAMBDA r : r.enabled /\ r.board = board /\ r.subType = kind)
    IN  [i \in 1..Len(sel) |-> sel[i].value]

buildSubscriptions(list) ==
    LET boardsOf == {r.board : r \in {x \in Rows(list) : x.enabled}}
        ps(b)    == ValuesOf(list, b, "pushsum")
    IN  {[Board    |-> b,
          Keywords |-> ValuesOf(list, b, "keyword"),
          Authors  |-> ValuesOf(list, b, "author"),
          PushSum  |-> IF ps(b) = <<>> THEN [Up |-> 0, Down |-> 0]
                       ELSE parsePushSum(ps(b)[Len(ps(b))])] : b \in boardsOf}

Profile(acc, chatID, list) ==
    [Enable |-> acc.enabled, Telegram |-> GetWebAccount(acc.id),
     TelegramChat |-> chatID,
     Subscribes |-> buildSubscriptions(list)]

(***************************************************************************)
(* Initial state: the seeded role table, two registered users, the first   *)
(* of them with a confirmed Telegram binding                               *)
(***************************************************************************)
\* a profile kept from before the web accounts, saved without Telegram
LegacyAccount == <<"legacy">>

\* accounts that profiles are kept for
Accounts == {GetWebAccount(u) : u \in Users} \cup {LegacyAccount}

NoneDelivered == [a \in Accounts |-> <<>>]

\* article codes a board feed can carry
Codes == {"x", "y"}

\* no article published and no round of the push-count poller yet
NoArticles ==
    /\ feed = [c \in Codes |-> [at |-> "unpublished", pushSum |-> 0]]
    /\ notified = {}
    /\ emitted = {}
    /\ firstOver = [a \in Accounts |-> [c \in Codes |-> 0]]
    /\ nPolls = 0

\* board b1 with no article stored, and no transaction begun
NoTransactions ==
    /\ db = [boards |-> ("b1" :> 0), articles |-> <<>>,
             comments |-> [c \in Codes |-> <<>>]]
    /\ txs = <<>>
    /\ saved = [c \in Codes |-> <<>>]

\* no Top-N read answered yet
\* no web-app bind token is kept
NoTokens == <<>>

NothingListed == [type |-> "", limit |-> 0, board |-> "", status |-> "none", rows |-> <<>>]

NoRoundTrip ==
    [phase |-> "none", id |-> 0, user |-> 0, count |-> 0, stats |-> <<>>, sets |-> {}]

\* the store and the cache after user 1 created the seed and its goroutines ran
SeedRow(w) == Row(1, 1, Seed(w), TRUE)

SeedStats(w) ==
    LET ops == syncStats(Seed(w).board, Seed(w).subType, Seed(w).value, TRUE)
    IN  [k \in {ops[i].key : i \in 1..Len(ops)} |-> 1]

Init ==
    /\ workload \in Workloads
    /\ users = (1 :> [role |-> "user", enabled |-> TRUE]) @@
               (2 :> [role |-> "admin", enabled |-> TRUE])
    /\ roleLimits = ("admin" :> -1) @@ ("vip" :> 20) @@ ("user" :> 3)
    /\ bindings = {Binding(1, ServiceTelegram, <<"7">>, 0, 0, TRUE)}
    /\ \/ /\ subs = <<>>
          /\ nextID = 1
          /\ stats = <<>>
          /\ cacheBoards = {}
          /\ cacheSubs = {}
          /\ cacheUser = <<>>
       \/ /\ subs = <<SeedRow(workload)>>
          /\ nextID = 2
          /\ stats = SeedStats(workload)
          /\ cacheBoards = {SeedRow(workload).board}
          /\ cacheSubs = {<<SeedRow(workload).subType, SeedRow(workload).board,
                            GetWebAccount(1)>>}
          /\ cacheUser = (GetWebAccount(1) :>
                            [Enable |-> TRUE, Telegram |-> GetWebAccount(1),
                             TelegramChat |-> 7,
                             Subscribes |-> buildSubscriptions(<<SeedRow(workload)>>)])
    /\ calls = EmptyBag
    /\ tasks = EmptyBag
    /\ result = "none"
    /\ nOps = 0
    /\ statDone = [src |-> "none", old |-> Req("", "", <<>>),
                   new |-> Req("", "", <<>>), net |-> <<>>]
    /\ roundTrip = NoRoundTrip
    /\ now = 0
    /\ issued = <<>>
    /\ workers = [w \in 1..NumWorkers |-> {}]
    /\ delivered = NoneDelivered
    /\ proc = "running"
    /\ alerts = 0
    /\ NoArticles
    /\ NoTransactions
    /\ listed = NothingListed
    /\ tokens = NoTokens

(***************************************************************************)
(* Goroutines                                                              *)
(***************************************************************************)
One(x) == SetToBag({x})

Account(userID) == [id |-> userID, role |-> users[userID].role,
                    enabled |-> users[userID].enabled]

\* A goroutine: kind and pc say where it is, src names the handler that
\* started it, sub and acc are its arguments, chat and list are the locals
\* of updateUserData, ops the Increment/Decrement calls a stats goroutine
\* still has to make, rest the subscriptions the loop of SyncAllSubscriptions
\* has not reached yet.  For the stats goroutine of an Update, old is the
\* subscription as the handler read it and net what the statements run so
\* far did to each count.
Task(kind, pc, src, sub, old, acc, ops) ==
    [kind |-> kind, pc |-> pc, src |-> src, sub |-> sub, old |-> old, acc |-> acc,
     chat |-> 0, list |-> <<>>, ops |-> ops, net |-> <<>>, rest |-> <<>>]

\* go redisSyncInternal.SyncSubscriptionCreate(sub, acc)
SyncCreateTask(src, sub, acc) ==
    Task("syncCreate", "add", src, sub, <<>>, acc, <<>>)

\* go redisSyncInternal.SyncSubscriptionDelete(sub, acc)
SyncDeleteTask(src, sub, acc) ==
    Task("syncDelete", "others", src, sub, <<>>, acc, <<>>)

\* go syncStats(...), go func() { syncStats(old...); syncStats(new...) }()
StatsTask(src, sub, old, acc, ops) ==
    Task("stats", "run", src, sub, old, acc, ops)

\* the goroutines one handler starts; a stats goroutine that has no
\* Increment or Decrement to make returns at once and is left out
Spawned(sync, stat) ==
    One(sync) (+) (IF stat.ops = <<>> THEN EmptyBag ELSE One(stat))

Pending(t) == BagIn(t, tasks)

Replace(t, u) == (tasks (-) One(t)) (+) One(u)

Finish(t) == tasks (-) One(t)

\* SyncSubscriptionCreate returns: its goroutine ends, or the loop of
\* SyncAllSubscriptions that called it goes on with the next subscription
Return(t) ==
    IF t.kind = "syncAll" /\ t.rest # <<>>
    THEN Replace(t, [t EXCEPT !.pc = "add", !.sub = Head(t.rest), !.rest = Tail(t.rest)])
    ELSE Finish(t)

SetUser(account, profile) ==
    [a \in DOMAIN cacheUser \cup {account} |->
        IF a = account THEN profile ELSE cacheUser[a]]

\* SyncSubscriptionCreate up to the end of addToSubscriberSet: the binding
\* lookup, SADD boards <board> and SADD <kind>:<board>:subs <account>.  No
\* statement of the program reads the boards set between the two commands.
SyncCreateAdd(t) ==
    /\ Pending(t) /\ t.kind \in {"syncCreate", "syncAll"} /\ t.pc = "add"
    /\ IF FindByUserAndService(t.acc.id) = <<>>
       THEN /\ tasks' = Return(t)
            /\ UNCHANGED <<cacheBoards, cacheSubs>>
       ELSE /\ cacheBoards' = cacheBoards \cup {t.sub.board}
            /\ cacheSubs' = cacheSubs \cup
                      {<<t.sub.subType, t.sub.board, GetWebAccount(t.acc.id)>>}
            /\ tasks' = Replace(t, [t EXCEPT !.pc = "list"])
    /\ UNCHANGED <<aside, workload, store, stats, cacheUser, calls, result, nOps, ghosts>>

\* the hasOtherSubs loop without its comparison of the board
hasOtherSubsAnyBoard(list, sub) ==
    \E i \in 1..Len(list) : /\ list[i].id # sub.id
                            /\ list[i].subType = sub.subType

\* SyncSubscriptionDelete: ListByUserID and the hasOtherSubs loop
hasOtherSubs(list, sub) ==
    \E i \in 1..Len(list) : /\ list[i].id # sub.id
                            /\ list[i].board = sub.board
                            /\ list[i].subType = sub.subType

SyncDeleteOthers(t) ==
    /\ Pending(t) /\ t.kind = "syncDelete" /\ t.pc = "others"
    /\ tasks' = Replace(t, [t EXCEPT !.pc =
                    IF hasOtherSubs(ListByUserID(subs, t.acc.id), t.sub)
                    THEN "list" ELSE "srem"])
    /\ UNCHANGED <<aside, workload, store, stats, cache, calls, result, nOps, ghosts>>

\* removeFromSubscriberSet: SREM <kind>:<board>:subs <account>
SyncDeleteSrem(t) ==
    /\ Pending(t) /\ t.kind = "syncDelete" /\ t.pc = "srem"
    /\ cacheSubs' = cacheSubs \
                      {<<t.sub.subType, t.sub.board, GetWebAccount(t.acc.id)>>}
    /\ tasks' = Replace(t, [t EXCEPT !.pc = "list"])
    /\ UNCHANGED <<aside, workload, store, stats, cacheBoards, cacheUser, calls, result, nOps, ghosts>>

\* updateUserData up to ListByUserID: binding lookup, ParseInt, the query
UpdateUserDataList(t) ==
    /\ Pending(t) /\ t.kind \in {"syncCreate", "syncDelete", "syncAll"} /\ t.pc = "list"
    /\ LET serviceID == FindByUserAndService(t.acc.id)
       IN  IF serviceID = <<>> \/ ~ParseIntOK(serviceID)
           THEN tasks' = Return(t)
           ELSE tasks' = Replace(t, [t EXCEPT !.pc = "set",
                                              !.chat = ParseInt(serviceID),
                                              !.list = ListByUserID(subs, t.acc.id)])
    /\ UNCHANGED <<aside, workload, store, stats, cache, calls, result, nOps, ghosts>>

\* updateUserData: SET user:<account> <json>
UpdateUserDataSet(t) ==
    /\ Pending(t) /\ t.kind \in {"syncCreate", "syncDelete", "syncAll"} /\ t.pc = "set"
    /\ cacheUser' = SetUser(GetWebAccount(t.acc.id), Profile(t.acc, t.chat, t.list))
    /\ tasks' = Return(t)
    /\ UNCHANGED <<aside, workload, store, stats, cacheBoards, cacheSubs, calls, result, nOps, ghosts>>

NetAdd(net, key, d) ==
    [k \in DOMAIN net \cup {key} |->
        (IF k \in DOMAIN net THEN net[k] ELSE 0) + (IF k = key THEN d ELSE 0)]

\* IncrementBatch / DecrementBatch: one Increment or Decrement statement
StatsStep(t) ==
    /\ Pending(t) /\ t.kind = "stats"
    /\ LET op  == Head(t.ops)
           new == IF op.inc THEN Increment(stats, op.key) ELSE Decrement(stats, op.key)
           net == IF t.src # "Update" THEN t.net
                  ELSE NetAdd(t.net, op.key,
                              StatCount(new, op.key) - StatCount(stats, op.key))
       IN  /\ stats' = new
           /\ IF Len(t.ops) = 1
              THEN /\ tasks' = Finish(t)
                   /\ statDone' = IF t.src # "Update" THEN statDone
                                  ELSE [src |-> t.src, old |-> Triple(t.old),
                                        new |-> Triple(t.sub), net |-> net]
              ELSE /\ tasks' = Replace(t, [t EXCEPT !.ops = Tail(t.ops), !.net = net])
                   /\ UNCHANGED statDone
    /\ UNCHANGED <<aside, workload, store, cache, calls, result, nOps, roundTrip>>

(***************************************************************************)
(* Handlers.  Each handler reads the store, then writes it in a second     *)
(* statement; other handlers and goroutines run in between.                *)
(***************************************************************************)
NoRow == Row(0, 0, Req("", "", <<>>), FALSE)

\* the values a Create followed by its Delete is expected to bring back
Snapshot(id, userID) ==
    [phase |-> "created", id |-> id, user |-> userID,
     count |-> CountByUserID(subs, userID), stats |-> stats, sets |-> cacheSubs]

Call(op, userID, id, r, enabled, old) ==
    [op |-> op, user |-> userID, id |-> id, req |-> Triple(r), enabled |-> enabled,
     old |-> old, acc |-> Account(userID)]

InFlight(c) == BagIn(c, calls)

Without(s, id) == SelectSeq(s, LAMBDA r : r.id # id)

\* a request is taken up while its two goroutines fit in with those in flight
Admitted ==
    /\ nOps < MaxOps
    /\ BagCardinality(tasks) + 2 * BagCardinality(calls) + 2 <= MaxTasks

\* Create, steps 1-3: FindByID, CheckLimit, CheckBoardExist
CreateOutcome(userID, r) ==
    IF CheckLimit(userID, users[userID].role) # "ok"
    THEN CheckLimit(userID, users[userID].role)
    ELSE IF ~CheckBoardExist(r.board) THEN "ErrBoardNotFound"
    ELSE "ok"

CreateCheck(userID, r) ==
    /\ Admitted /\ nOps' = nOps + 1
    /\ IF CreateOutcome(userID, r) = "ok"
       THEN /\ calls' = calls (+) One(Call("Create", userID, 0, r, TRUE, NoRow))
            /\ UNCHANGED result
       ELSE /\ result' = CreateOutcome(userID, r)
            /\ UNCHANGED calls
    /\ UNCHANGED <<aside, workload, store, stats, cache, tasks, ghosts>>

\* Create with its two go statements ahead of the error check of createInDB
CreateInsertGoFirst(c) ==
    /\ InFlight(c) /\ c.op = "Create"
    /\ calls' = calls (-) One(c)
    /\ nextID' = nextID + 1
    /\ LET sub == Row(nextID, c.user, c.req, TRUE)
           new == Spawned(SyncCreateTask("Create", sub, c.acc),
                          StatsTask("Create", sub, <<>>, c.acc,
                              syncStats(sub.board, sub.subType, sub.value, TRUE)))
       IN  /\ tasks' = tasks (+) new
           /\ IF UniqueConflict(subs, c.user, c.req, 0)
              THEN result' = "ErrSubscriptionExists" /\ UNCHANGED subs
              ELSE result' = "ok" /\ subs' = <<sub>> \o subs
    /\ roundTrip' = NoRoundTrip
    /\ UNCHANGED <<aside, workload, users, roleLimits, bindings, stats, cache, nOps, statDone>>

\* Create, steps 4-6: createInDB, then the two go statements
CreateInsert(c) ==
    /\ InFlight(c) /\ c.op = "Create"
    /\ calls' = calls (-) One(c)
    /\ nextID' = nextID + 1
    /\ IF UniqueConflict(subs, c.user, c.req, 0)
       THEN /\ result' = "ErrSubscriptionExists"
            /\ UNCHANGED <<subs, tasks, roundTrip>>
       ELSE LET sub == Row(nextID, c.user, c.req, TRUE)
                new == Spawned(SyncCreateTask("Create", sub, c.acc),
                               StatsTask("Create", sub, <<>>, c.acc,
                                   syncStats(sub.board, sub.subType, sub.value, TRUE)))
            IN  /\ subs' = <<sub>> \o subs
                /\ tasks' = tasks (+) new
                /\ result' = "ok"
                /\ roundTrip' = IF tasks = EmptyBag
                                THEN Snapshot(sub.id, c.user) ELSE NoRoundTrip
    /\ UNCHANGED <<aside, workload, users, roleLimits, bindings, stats, cache, nOps, statDone>>

\* Update, steps 1-3: FindByID, ownership, CheckBoardExist
UpdateOutcome(id, userID, r) ==
    IF FindByID(subs, id) = {} THEN "ErrSubscriptionNotFound"
    ELSE IF (CHOOSE x \in FindByID(subs, id) : TRUE).user # userID
         THEN "ErrSubscriptionNotFound"
    ELSE IF ~CheckBoardExist(r.board) THEN "ErrBoardNotFound"
    ELSE "ok"

UpdateCheck(id, userID, r, enabled) ==
    /\ Admitted /\ nOps' = nOps + 1
    /\ IF UpdateOutcome(id, userID, r) = "ok"
       THEN /\ calls' = calls (+) One(Call("Update", userID, id, r, enabled,
                                          CHOOSE x \in FindByID(subs, id) : TRUE))
            /\ UNCHANGED result
       ELSE /\ result' = UpdateOutcome(id, userID, r)
            /\ UNCHANGED calls
    /\ UNCHANGED <<aside, workload, store, stats, cache, tasks, ghosts>>

\* Update, steps 4-7: updateInDB (an UPDATE that matches no row is no error),
\* then the two go statements
UpdateWrite(c) ==
    /\ InFlight(c) /\ c.op = "Update"
    /\ calls' = calls (-) One(c)
    /\ LET cur == FindByID(subs, c.id)
           sub == Row(c.id, c.old.user, c.req, c.enabled)
           new == Spawned(SyncCreateTask("Update", sub, c.acc),
                          StatsTask("Update", sub, c.old, c.acc,
                              syncStats(c.old.board, c.old.subType, c.old.value, FALSE)
                              \o syncStats(sub.board, sub.subType, sub.value, TRUE)))
       IN  IF cur # {} /\ UniqueConflict(subs, (CHOOSE x \in cur : TRUE).user, c.req, c.id)
           THEN /\ result' = "dbError"
                /\ UNCHANGED <<subs, tasks, roundTrip>>
           ELSE /\ subs' = IF cur = {} THEN subs
                           ELSE <<Row(c.id, (CHOOSE x \in cur : TRUE).user,
                                      c.req, c.enabled)>> \o Without(subs, c.id)
                /\ tasks' = tasks (+) new
                /\ result' = "ok"
                /\ roundTrip' = NoRoundTrip
    /\ UNCHANGED <<aside, workload, users, roleLimits, bindings, nextID, stats, cache, nOps,
                   statDone>>

\* Delete, steps 1-3: FindByID, ownership, account lookup
DeleteOutcome(id, userID) ==
    IF FindByID(subs, id) = {} THEN "ErrSubscriptionNotFound"
    ELSE IF (CHOOSE x \in FindByID(subs, id) : TRUE).user # userID
         THEN "ErrSubscriptionNotFound"
    ELSE "ok"

DeleteCheck(id, userID) ==
    /\ Admitted /\ nOps' = nOps + 1
    /\ IF DeleteOutcome(id, userID) = "ok"
       THEN /\ calls' = calls (+) One(Call("Delete", userID, id, Req("", "", <<>>),
                                          FALSE, CHOOSE x \in FindByID(subs, id) : TRUE))
            /\ UNCHANGED result
       ELSE /\ result' = DeleteOutcome(id, userID)
            /\ UNCHANGED calls
    /\ UNCHANGED <<aside, workload, store, stats, cache, tasks, ghosts>>

\* Delete with its two go statements ahead of deleteInDB, whose error ends it
DeleteWriteGoFirst(c) ==
    /\ InFlight(c) /\ c.op = "Delete"
    /\ calls' = calls (-) One(c)
    /\ LET new == Spawned(SyncDeleteTask("Delete", c.old, c.acc),
                          StatsTask("Delete", c.old, <<>>, c.acc,
                              syncStats(c.old.board, c.old.subType, c.old.value, FALSE)))
       IN  /\ tasks' = tasks (+) new
           /\ \/ subs' = Without(subs, c.id) /\ result' = "ok"
              \/ subs' = subs /\ result' = "dbError"
    /\ roundTrip' = NoRoundTrip
    /\ UNCHANGED <<aside, workload, users, roleLimits, bindings, nextID, stats, cache, nOps,
                   statDone>>

\* Delete, steps 4-6: deleteInDB, then the two go statements
DeleteWrite(c) ==
    /\ InFlight(c) /\ c.op = "Delete"
    /\ calls' = calls (-) One(c)
    /\ LET new == Spawned(SyncDeleteTask("Delete", c.old, c.acc),
                          StatsTask("Delete", c.old, <<>>, c.acc,
                              syncStats(c.old.board, c.old.subType, c.old.value, FALSE)))
       IN  /\ subs' = Without(subs, c.id)
           /\ tasks' = tasks (+) new
           /\ result' = "ok"
    /\ roundTrip' = IF roundTrip.phase = "created" /\ roundTrip.id = c.id
                    THEN [roundTrip EXCEPT !.phase = "deleted"] ELSE NoRoundTrip
    /\ UNCHANGED <<aside, workload, users, roleLimits, bindings, nextID, stats, cache, nOps,
                   statDone>>

\* RoleLimitPostgres.Update: UPDATE role_limits SET max_subscriptions = $2
AdminUpdateRole(role, maxSubs) ==
    /\ role \in DOMAIN roleLimits
    /\ roleLimits[role] # maxSubs
    /\ roleLimits' = [roleLimits EXCEPT ![role] = maxSubs]
    /\ UNCHANGED <<aside, workload, users, bindings, subs, nextID, stats, cache,
                   calls, tasks, result, ghosts>>
    /\ nOps < MaxOps /\ nOps' = nOps + 1

(***************************************************************************)
(* Specification                                                           *)
(***************************************************************************)
TaskStep(t) ==
    \/ SyncCreateAdd(t)
    \/ SyncDeleteOthers(t)
    \/ SyncDeleteSrem(t)
    \/ UpdateUserDataList(t)
    \/ UpdateUserDataSet(t)
    \/ StatsStep(t)

Next ==
    \/ \E u \in Users, r \in workload : CreateCheck(u, Triple(r))
    \/ \E c \in BagToSet(calls) : CreateInsert(c)
    \/ \E id \in 1..nextID, u \in Users, r \in workload :
           UpdateCheck(id, u, r, r.enabled)
    \/ \E c \in BagToSet(calls) : UpdateWrite(c)
    \/ \E id \in 1..nextID, u \in Users : DeleteCheck(id, u)
    \/ \E c \in BagToSet(calls) : DeleteWrite(c)
    \/ \E role \in ManagedRoles, m \in LimitValues : AdminUpdateRole(role, m)
    \/ \E t \in BagToSet(tasks) : TaskStep(t)

Spec == Init /\ [][Next]_vars

\* The Go scheduler runs every goroutine that can run: a started goroutine
\* reaches its next statement and a handler past its checks reaches its write.
FairSpec ==
    /\ Spec
    /\ WF_vars(\E t \in BagToSet(tasks) : TaskStep(t))
    /\ WF_vars(\E c \in BagToSet(calls) :
                  CreateInsert(c) \/ UpdateWrite(c) \/ DeleteWrite(c))

(***************************************************************************)
(* Rebuilding the cache from the store: SyncAllSubscriptions run to its    *)
(* end for every user against an empty cache.                              *)
(***************************************************************************)
EmptyCache == [boards |-> {}, subs |-> {}, user |-> <<>>]

Cache == [boards |-> cacheBoards, subs |-> cacheSubs, user |-> cacheUser]

\* SyncSubscriptionCreate from its first to its last statement
SyncSubscriptionCreate(c, sub, acc) ==
    LET serviceID == FindByUserAndService(acc.id)
        account   == GetWebAccount(acc.id)
        added     == [c EXCEPT !.boards = @ \cup {sub.board},
                               !.subs = @ \cup {<<sub.subType, sub.board, account>>}]
        profile   == Profile(acc, ParseInt(serviceID), ListByUserID(subs, acc.id))
    IN  IF serviceID = <<>> THEN c
        ELSE IF ~ParseIntOK(serviceID) THEN added
        ELSE [added EXCEPT !.user =
                 [a \in DOMAIN @ \cup {account} |-> IF a = account THEN profile ELSE @[a]]]

RECURSIVE SyncEach(_, _, _)
SyncEach(c, list, acc) ==
    IF list = <<>> THEN c
    ELSE SyncEach(SyncSubscriptionCreate(c, Head(list), acc), Tail(list), acc)

SyncAllSubscriptions(c, userID) ==
    LET list == ListByUserID(subs, userID)
    IN  IF Len(list) = 0 THEN c ELSE SyncEach(c, list, Account(userID))

RECURSIVE RebuildFor(_, _)
RebuildFor(c, us) ==
    IF us = {} THEN c
    ELSE LET u == CHOOSE x \in us : TRUE
         IN  RebuildFor(SyncAllSubscriptions(c, u), us \ {u})

Rebuild == RebuildFor(EmptyCache, Users)

\* no handler between its check and its write, no goroutine still running
Quiescent == calls = EmptyBag /\ tasks = EmptyBag

(***************************************************************************)
(* C1.  Once every handler has returned and every sync goroutine has       *)
(* finished, the cache built up by Create, Update and Delete is the cache  *)
(* that a rebuild from the store produces: the same boards set, the same   *)
(* <kind>:<board>:subs sets and the same user:<id> profiles.               *)
(***************************************************************************)
C1_CacheIsRebuild ==
    Quiescent => Cache = Rebuild

(***************************************************************************)
(* C2.  Whenever no stat update is pending, the count of every             *)
(* (board, kind, value) in SubscriptionStat is the number of stored        *)
(* subscriptions whose parsed components include that triple.              *)
(***************************************************************************)
Range(f) == {f[i] : i \in DOMAIN f}

\* the (board, kind, value) triples one subscription is counted under
Components(r) ==
    IF r.subType = "article" THEN {}
    ELSE IF r.subType = "keyword"
         THEN {<<r.board, r.subType, v>> : v \in Range(parseKeywordValues(r.value))}
    ELSE {<<r.board, r.subType, r.value>>}

NoStatPending == \A t \in BagToSet(tasks) : t.kind # "stats"

CountedKeys == DOMAIN stats \cup UNION {Components(r) : r \in Rows(subs)}

C2_StatsMatchStore ==
    NoStatPending =>
        \A key \in CountedKeys :
            StatCount(stats, key) =
                Cardinality({r \in Rows(subs) : key \in Components(r)})

(***************************************************************************)
(* C3.  A Create of x followed by the Delete of x, with no other mutation  *)
(* in between, brings back the values from before the Create once the      *)
(* goroutines have finished: the number of subscriptions of the user,      *)
(* every stat count and every cache subscriber set.                        *)
(***************************************************************************)
C3_CreateDeleteRestores ==
    (roundTrip.phase = "deleted" /\ tasks = EmptyBag) =>
        /\ CountByUserID(subs, roundTrip.user) = roundTrip.count
        /\ \A key \in DOMAIN stats \cup DOMAIN roundTrip.stats :
               StatCount(stats, key) = StatCount(roundTrip.stats, key)
        /\ cacheSubs = roundTrip.sets

(***************************************************************************)
(* C4.  A Create is rejected with the limit-reached error when the role's  *)
(* maximum N is at least 0 and the user already holds N or more            *)
(* subscriptions; with a maximum of -1 the limit check never rejects.      *)
(***************************************************************************)
LimitRejected == calls' = calls /\ result' = "ErrSubscriptionLimitReached"

C4_LimitEnforced ==
    [][\A u \in Users : \A r \in workload :
          CreateCheck(u, Triple(r)) =>
              LET N    == roleLimits[users[u].role]
                  held == Cardinality({x \in Rows(subs) : x.user = u})
              IN  /\ (N >= 0 /\ held >= N) => LimitRejected
                  /\ (N = -1) => ~LimitRejected]_vars

C4_Witness ==
    /\ result = "ErrSubscriptionLimitReached"
    /\ \E u \in Users : /\ roleLimits[users[u].role] >= 0
                         /\ CountByUserID(subs, u) >= roleLimits[users[u].role]

(***************************************************************************)
(* C5.  A Create that is rejected (limit reached, unknown board, already   *)
(* exists) leaves the subscription rows as they were, writes nothing to    *)
(* the cache, changes no stat and starts no goroutine.                     *)
(***************************************************************************)
CreateLeftNothing == UNCHANGED <<subs, cacheBoards, cacheSubs, cacheUser, stats, tasks>>

C5_RejectedCreateChangesNothing ==
    [][/\ \A u \in Users : \A r \in workload :
              (CreateCheck(u, Triple(r)) /\ calls' = calls) => CreateLeftNothing
       /\ \A c \in BagToSet(calls) :
              (CreateInsert(c) /\ result' # "ok") => CreateLeftNothing]_vars

C5_Witness ==
    /\ result \in {"ErrBoardNotFound", "ErrSubscriptionExists"}
    /\ subs # <<>> /\ cacheSubs # {} /\ stats # <<>>

(***************************************************************************)
(* C6.  No two rows have the same (user, board, kind, value).  A Create    *)
(* whose four values are already stored returns AlreadyExists and leaves   *)
(* the stored row as it is, also when two identical Creates run together.  *)
(***************************************************************************)
Unique ==
    \A i, j \in 1..Len(subs) :
        (subs[i].user = subs[j].user /\ Triple(subs[i]) = Triple(subs[j])) => i = j

Stored(c) == \E x \in Rows(subs) : x.user = c.user /\ Triple(x) = c.req

C6_UniqueRows ==
    /\ []Unique
    /\ [][\A c \in BagToSet(calls) :
             (CreateInsert(c) /\ Stored(c)) =>
                 (result' = "ErrSubscriptionExists" /\ subs' = subs)]_vars

\* a duplicate was refused: its INSERT took a value of the id sequence
C6_Witness ==
    /\ result = "ErrSubscriptionExists"
    /\ \E i \in 1..Len(subs) : subs[i].id + 2 <= nextID

(***************************************************************************)
(* C7.  For every mutation the row write in the store is done before any   *)
(* cache write or stat update that belongs to it: a goroutine is started   *)
(* only in the step whose store carries the written row, a write that      *)
(* fails starts none, and only goroutines write the cache and the stats.   *)
(***************************************************************************)
Started(t) ==
    /\ BagCardinality(tasks') > BagCardinality(tasks)
    /\ CopiesIn(t, tasks') > CopiesIn(t, tasks)

WrittenRow(t, before, after) ==
    CASE t.src = "Create" -> t.sub \in Rows(after) /\ t.sub \notin Rows(before)
      [] t.src = "Update" -> FindByID(after, t.sub.id) \subseteq {t.sub}
      [] t.src = "Delete" -> FindByID(after, t.sub.id) = {}

OtherLeft(t) ==
    \E x \in Rows(subs) : /\ x.user = t.acc.id /\ x.id # t.sub.id
                          /\ x.board = t.sub.board /\ x.subType = t.sub.subType

SetKey(t) == <<t.sub.subType, t.sub.board, GetWebAccount(t.acc.id)>>

C8_RemovedIffNoOther ==
    [][/\ \A t \in BagToSet(tasks) :
              SyncDeleteOthers(t) =>
                  tasks' = Replace(t, [t EXCEPT !.pc =
                               IF OtherLeft(t) THEN "list" ELSE "srem"])
       /\ \A t \in BagToSet(tasks) : SyncDeleteSrem(t) => SetKey(t) \notin cacheSubs'
       /\ \A e \in cacheSubs \ cacheSubs' :
              \E t \in BagToSet(tasks) : SyncDeleteSrem(t) /\ e = SetKey(t)]_vars

\* a Delete that kept the user in the set because of another subscription
C8_Witness ==
    \E t \in BagToSet(tasks) :
        /\ t.kind = "syncDelete" /\ t.pc = "list"
        /\ OtherLeft(t) /\ SetKey(t) \in cacheSubs

(***************************************************************************)
(* C9.  The stats goroutine of an Update moves a count only where the      *)
(* (board, kind, value) of the subscription changed: a triple of the old   *)
(* subscription alone goes down by one, a triple of the new one alone goes *)
(* up by one, and an Update that keeps the triple leaves every count as it *)
(* was.                                                                    *)
(***************************************************************************)
Expected(key, old, new) ==
    (IF key \in Components(new) THEN 1 ELSE 0) - (IF key \in Components(old) THEN 1 ELSE 0)

C9_UpdateMovesChangedOnly ==
    statDone.src = "Update" =>
        \A key \in DOMAIN statDone.net \cup Components(statDone.old)
                                        \cup Components(statDone.new) :
            (IF key \in DOMAIN statDone.net THEN statDone.net[key] ELSE 0)
                = Expected(key, statDone.old, statDone.new)

(***************************************************************************)
(* C10.  After a successful Create for a user with a confirmed binding,    *)
(* the cache eventually holds the user in <kind>:<board>:subs, the board   *)
(* in boards and a profile of the user that lists the subscription, for    *)
(* as long as the subscription is stored and enabled.                      *)
(***************************************************************************)
Listed(x, profile) ==
    \E b \in profile.Subscribes :
        /\ b.Board = x.board
        /\ CASE x.subType = "keyword" -> x.value \in Range(b.Keywords)
             [] x.subType = "author"  -> x.value \in Range(b.Authors)
             [] x.subType = "pushsum" ->
                    \/ Sscanf(x.value) > 0 /\ b.PushSum.Up = Sscanf(x.value)
                    \/ Sscanf(x.value) < 0 /\ b.PushSum.Down = Sscanf(x.value)
             [] OTHER -> FALSE

InCache(x) ==
    /\ <<x.subType, x.board, GetWebAccount(x.user)>> \in cacheSubs
    /\ x.board \in cacheBoards
    /\ GetWebAccount(x.user) \in DOMAIN cacheUser
    /\ Listed(x, cacheUser[GetWebAccount(x.user)])

\* subscription id is stored and enabled, its user is bound, the cache lacks it
StoredUncached(id) ==
    \E x \in Rows(subs) :
        /\ x.id = id /\ x.enabled
        /\ FindByUserAndService(x.user) # <<>>
        /\ ~InCache(x)

C10_CreateReachesCache ==
    \A id \in 1..(MaxOps + 1) : StoredUncached(id) ~> ~StoredUncached(id)

(***************************************************************************)
(* C11.  No stat increment is lost: each Increment that completes raises   *)
(* the count of its (board, kind, value) by exactly one and leaves every   *)
(* other count alone, whatever other increments run around it and also     *)
(* when the row did not exist before.                                      *)
(***************************************************************************)
C11_IncrementNotLost ==
    [][\A t \in BagToSet(tasks) :
          (StatsStep(t) /\ Head(t.ops).inc) =>
              \A k \in DOMAIN stats \cup DOMAIN stats' \cup {Head(t.ops).key} :
                  StatCount(stats', k) =
                      StatCount(stats, k) + (IF k = Head(t.ops).key THEN 1 ELSE 0)]_vars

\* the goroutine of the first Create has its Increment still to make while
\* the Increment of a later Create of the same triple has made the row
C11_Witness ==
    \E t \in BagToSet(tasks) :
        /\ t.kind = "stats" /\ t.src = "Create" /\ Head(t.ops).inc
        /\ t.sub.id = 1
        /\ StatCount(stats, Head(t.ops).key) = 1
        /\ \E x \in Rows(subs) : x.id > 1 /\ Head(t.ops).key \in Components(x)

(***************************************************************************)
(* C12.  Every count of SubscriptionStat is at least 0 in every reachable  *)
(* state; a Decrement that finds the count at 0 leaves it at 0.            *)
(***************************************************************************)
C12_CountsNotNegative ==
    \A k \in DOMAIN stats : stats[k] >= 0

\* the Decrement of an Update found the row at 0 and left it there
C12_Witness ==
    \E t \in BagToSet(tasks) :
        /\ t.kind = "stats" /\ t.src = "Update"
        /\ \E k \in DOMAIN t.net \cap DOMAIN stats : t.net[k] = 0 /\ stats[k] = 0

BindCodeTTL == 10

\* the chats that talk to the bot
Chats == {7, 8}

\* the accounts an email names: those of Users and one not registered yet
NewUser == Cardinality(Users) + 1
Emails == Users \cup {NewUser}

\* strconv.FormatInt(chatID, 10)
RECURSIVE FormatInt(_)
FormatInt(n) ==
    IF n < 0 THEN <<"-">> \o FormatInt(0 - n)
    ELSE IF n < 10 THEN <<Digits[n + 1]>>
    ELSE FormatInt(n \div 10) \o <<Digits[(n % 10) + 1]>>

\* UNIQUE(user_id, service) never refusing a row
UserServiceTakenNever(rows, userID, service) == FALSE

\* UNIQUE(user_id, service): a row of rows has the pair already
UserServiceTaken(rows, userID, service) ==
    \E b \in rows : b.user = userID /\ b.service = service

\* UNIQUE(service, service_id) never refusing a row
ServiceIDTakenNever(rows, service, serviceID) == FALSE

\* UNIQUE(service, service_id): a row of rows has the pair already
ServiceIDTaken(rows, service, serviceID) ==
    \E b \in rows : b.service = service /\ b.serviceID = serviceID

\* FindByServiceID: the rows the query selects from
FindByServiceID(service, serviceID) ==
    {b \in bindings : b.service = service /\ b.serviceID = serviceID}

\* FindByBindCode without its comparison of bind_code_expires_at
FindByBindCodeAnyTime(service, code) ==
    {b \in bindings : b.service = service /\ b.bindCode = code}

\* FindByBindCode: ... AND bind_code_expires_at > CURRENT_TIMESTAMP
FindByBindCode(service, code) ==
    {b \in bindings : b.service = service /\ b.bindCode = code /\ b.expiresAt > now}

\* ConfirmBinding: the UPDATE, refused as a whole when a row it would write
\* breaks UNIQUE(service, service_id)
ConfirmBindingFails(userID, service, serviceID) ==
    /\ BindingsOf(userID, service) # {}
    /\ ServiceIDTaken(bindings \ BindingsOf(userID, service), service, serviceID)

ConfirmBinding(userID, service, serviceID) ==
    (bindings \ BindingsOf(userID, service)) \cup
        {Binding(userID, service, serviceID, 0, 0, TRUE) :
            b \in BindingsOf(userID, service)}

\* Create: the INSERT, refused when it breaks one of the two constraints
CreateBindingFails(userID, service, serviceID) ==
    \/ UserServiceTaken(bindings, userID, service)
    \/ ServiceIDTaken(bindings, service, serviceID)

\* a handler between its reads and its write
BindCall(op, pc, userID, service, chat, code, expiresAt) ==
    [op |-> op, pc |-> pc, user |-> userID, service |-> service, chat |-> chat,
     code |-> code, expiresAt |-> expiresAt, at |-> now]

Returned(c) == calls (-) One(c)

\* go (&account.RedisSync{}).SyncAllSubscriptions(userID)
SyncAllTask(userID) ==
    Task("syncAll", "start", "Bind", Row(0, 0, Req("", "", <<>>), FALSE), <<>>,
         [id |-> userID, role |-> "", enabled |-> FALSE], <<>>)

\* what the subscription side keeps while the enrolment handlers run
bindFixed == <<workload, roleLimits, subs, nextID, stats, ghosts, workers, delivered,
              proc, alerts, pushsum, database, listed, tokens>>

\* GenerateBindCode up to binding.GenerateBindCode and time.Now()
GenerateBindCodeCheck(userID, service) ==
    /\ nOps < MaxBindOps
    /\ nOps' = nOps + 1
    /\ IF \E b \in BindingsOf(userID, service) : b.serviceID # <<>>
       THEN /\ result' = "AlreadyBound"
            /\ UNCHANGED <<calls, issued>>
       ELSE /\ calls' = calls (+) One(BindCall("GenerateBindCode", "update", userID,
                                    service, 0, Len(issued) + 1, now + BindCodeTTL))
            /\ issued' = Append(issued, now)
            /\ UNCHANGED result
    /\ UNCHANGED <<users, bindings, cache, tasks, now, bindFixed>>

\* UpdateBindCode: the UPDATE of the row of (user, service)
UpdateBindCodeUpdate(c) ==
    /\ InFlight(c) /\ c.op = "GenerateBindCode" /\ c.pc = "update"
    /\ IF BindingsOf(c.user, c.service) # {}
       THEN /\ bindings' = (bindings \ BindingsOf(c.user, c.service)) \cup
                   {[b EXCEPT !.bindCode = c.code, !.expiresAt = c.expiresAt] :
                       b \in BindingsOf(c.user, c.service)}
            /\ calls' = Returned(c)
            /\ result' = "BindCode"
       ELSE /\ calls' = Returned(c) (+) One([c EXCEPT !.pc = "insert"])
            /\ UNCHANGED <<bindings, result>>
    /\ UNCHANGED <<users, cache, tasks, nOps, now, issued, bindFixed>>

\* UpdateBindCode: the INSERT of a row with service_id '' when RowsAffected
\* was 0
UpdateBindCodeInsert(c) ==
    /\ InFlight(c) /\ c.op = "GenerateBindCode" /\ c.pc = "insert"
    /\ IF CreateBindingFails(c.user, c.service, <<>>)
       THEN /\ result' = "SaveFailed"
            /\ UNCHANGED bindings
       ELSE /\ bindings' = bindings \cup
                   {Binding(c.user, c.service, <<>>, c.code, c.expiresAt, FALSE)}
            /\ result' = "BindCode"
    /\ calls' = Returned(c)
    /\ UNCHANGED <<users, cache, tasks, nOps, now, issued, bindFixed>>

\* handleBindCode up to ConfirmBinding: FindByBindCode, the test of
\* b.ServiceID and FindByServiceID for the chat
HandleBindCodeFind(chat, code) ==
    /\ nOps < MaxBindOps
    /\ nOps' = nOps + 1
    /\ LET found == FindByBindCode(ServiceTelegram, code)
           b     == CHOOSE x \in found : TRUE
       IN  IF found = {}
           THEN result' = "InvalidOrExpired" /\ UNCHANGED calls
           ELSE IF b.serviceID # <<>>
           THEN result' = "AlreadyBound" /\ UNCHANGED calls
           ELSE IF FindByServiceID(ServiceTelegram, FormatInt(chat)) # {}
           THEN result' = "Conflict" /\ UNCHANGED calls
           ELSE /\ calls' = calls (+) One(BindCall("handleBindCode", "confirm", b.user,
                                        ServiceTelegram, chat, code, b.expiresAt))
                /\ UNCHANGED result
    /\ UNCHANGED <<users, bindings, cache, tasks, now, issued, bindFixed>>

\* handleBindCode: ConfirmBinding and go SyncAllSubscriptions
HandleBindCodeConfirm(c) ==
    /\ InFlight(c) /\ c.op = "handleBindCode" /\ c.pc = "confirm"
    /\ IF ConfirmBindingFails(c.user, c.service, FormatInt(c.chat))
       THEN /\ result' = "Failed"
            /\ UNCHANGED <<bindings, tasks>>
       ELSE /\ bindings' = ConfirmBinding(c.user, c.service, FormatInt(c.chat))
            /\ tasks' = tasks (+) One(SyncAllTask(c.user))
            /\ result' = "Bound"
    /\ calls' = Returned(c)
    /\ UNCHANGED <<users, cache, nOps, now, issued, bindFixed>>

\* TelegramWebAppConfirm up to ConfirmBinding: the chat the token stands
\* for, FindByUserAndService and FindByServiceID
WebAppConfirmCheck(userID, chat) ==
    /\ nOps < MaxBindOps
    /\ nOps' = nOps + 1
    /\ IF \E b \in BindingsOf(userID, ServiceTelegram) : b.serviceID # <<>>
       THEN result' = "AlreadyBound" /\ UNCHANGED calls
       ELSE IF \E b \in FindByServiceID(ServiceTelegram, FormatInt(chat)) :
                   b.user # userID
       THEN result' = "Conflict" /\ UNCHANGED calls
       ELSE /\ calls' = calls (+) One(BindCall("TelegramWebAppConfirm", "confirm",
                                    userID, ServiceTelegram, chat, 0, 0))
            /\ UNCHANGED result
    /\ UNCHANGED <<users, bindings, cache, tasks, now, issued, bindFixed>>

\* TelegramWebAppConfirm: ConfirmBinding and go SyncAllSubscriptions
WebAppConfirmWrite(c) ==
    /\ InFlight(c) /\ c.op = "TelegramWebAppConfirm" /\ c.pc = "confirm"
    /\ IF ConfirmBindingFails(c.user, c.service, FormatInt(c.chat))
       THEN /\ result' = "Failed"
            /\ UNCHANGED <<bindings, tasks>>
       ELSE /\ bindings' = ConfirmBinding(c.user, c.service, FormatInt(c.chat))
            /\ tasks' = tasks (+) One(SyncAllTask(c.user))
            /\ result' = "Bound"
    /\ calls' = Returned(c)
    /\ UNCHANGED <<users, cache, nOps, now, issued, bindFixed>>

\* handleEmailInput up to the write of the binding: FindByEmail and, for an
\* account that exists, FindByUserAndService; for an email not registered,
\* accountRepo.Create
HandleEmailInputCheck(chat, email) ==
    /\ nOps < MaxBindOps
    /\ nOps' = nOps + 1
    /\ IF email \in DOMAIN users
       THEN /\ IF \E b \in BindingsOf(email, ServiceTelegram) : b.serviceID # <<>>
               THEN result' = "AlreadyBoundOther" /\ UNCHANGED calls
               ELSE /\ calls' = calls (+) One(BindCall("handleEmailInput",
                            IF BindingsOf(email, ServiceTelegram) # {}
                            THEN "confirm" ELSE "create",
                            email, ServiceTelegram, chat, 0, 0))
                    /\ UNCHANGED result
            /\ UNCHANGED users
       ELSE /\ users' = [u \in DOMAIN users \cup {email} |->
                            IF u = email THEN [role |-> "user", enabled |-> TRUE]
                            ELSE users[u]]
            /\ calls' = calls (+) One(BindCall("handleEmailInput", "new", email,
                                    ServiceTelegram, chat, 0, 0))
            /\ UNCHANGED result
    /\ UNCHANGED <<bindings, cache, tasks, now, issued, bindFixed>>

\* handleEmailInput: ConfirmBinding for a row that waits for its chat,
\* Create otherwise; go SyncAllSubscriptions for an account that existed
HandleEmailInputWrite(c) ==
    /\ InFlight(c) /\ c.op = "handleEmailInput"
    /\ IF c.pc = "confirm"
       THEN IF ConfirmBindingFails(c.user, c.service, FormatInt(c.chat))
            THEN /\ result' = "Failed"
                 /\ UNCHANGED <<bindings, tasks>>
            ELSE /\ bindings' = ConfirmBinding(c.user, c.service, FormatInt(c.chat))
                 /\ tasks' = tasks (+) One(SyncAllTask(c.user))
                 /\ result' = "Bound"
       ELSE IF CreateBindingFails(c.user, c.service, FormatInt(c.chat))
            THEN /\ result' = "Failed"
                 /\ UNCHANGED <<bindings, tasks>>
            ELSE /\ bindings' = bindings \cup
                        {Binding(c.user, c.service, FormatInt(c.chat), 0, 0, TRUE)}
                 /\ tasks' = IF c.pc = "new" THEN tasks
                              ELSE tasks (+) One(SyncAllTask(c.user))
                 /\ result' = "Bound"
    /\ calls' = Returned(c)
    /\ UNCHANGED <<users, cache, nOps, now, issued, bindFixed>>

\* UnbindService: Delete, ErrBindingNotFound when RowsAffected is 0
UnbindService(userID) ==
    /\ nOps < MaxBindOps
    /\ nOps' = nOps + 1
    /\ IF BindingsOf(userID, ServiceTelegram) = {}
       THEN result' = "NotFound" /\ UNCHANGED bindings
       ELSE /\ bindings' = bindings \ BindingsOf(userID, ServiceTelegram)
            /\ result' = "Unbound"
    /\ UNCHANGED <<users, cache, calls, tasks, now, issued, bindFixed>>

\* the clock of the database and of the handlers moves on
Tick ==
    /\ now < MaxTime
    /\ now' = now + TickMinutes
    /\ UNCHANGED <<users, bindings, cache, calls, tasks, result, nOps, issued, bindFixed>>

\* SyncAllSubscriptions up to its loop: FindByID, ListByUserID and the
\* return when the user holds no subscription
SyncAllStart(t) ==
    /\ Pending(t) /\ t.kind = "syncAll" /\ t.pc = "start"
    /\ LET list == ListByUserID(subs, t.acc.id)
       IN  IF Len(list) = 0
           THEN tasks' = Finish(t)
           ELSE tasks' = Replace(t, [t EXCEPT !.pc = "add", !.acc = Account(t.acc.id),
                                              !.sub = Head(list), !.rest = Tail(list)])
    /\ UNCHANGED <<users, bindings, cache, calls, result, nOps, now, issued, bindFixed>>

\* the store and the cache when the enrolment handlers start: user 1 with a
\* confirmed binding and no subscription, user 2 with two subscriptions and
\* no binding, so nothing of user 2 in the cache
BindInit ==
    /\ workload = WorkloadBoards
    /\ users = (1 :> [role |-> "user", enabled |-> TRUE]) @@
               (2 :> [role |-> "admin", enabled |-> TRUE])
    /\ roleLimits = ("admin" :> -1) @@ ("vip" :> 20) @@ ("user" :> 3)
    /\ bindings = {Binding(1, ServiceTelegram, <<"7">>, 0, 0, TRUE)}
    /\ subs = <<Row(2, 2, Req("b2", "author", <<"a">>), TRUE),
                Row(1, 2, Req("b1", "keyword", <<"a">>), TRUE)>>
    /\ nextID = Len(subs) + 1
    /\ stats = <<>>
    /\ cacheBoards = {}
    /\ cacheSubs = {}
    /\ cacheUser = <<>>
    /\ calls = EmptyBag
    /\ tasks = EmptyBag
    /\ result = "none"
    /\ nOps = 0
    /\ statDone = [src |-> "none", old |-> Req("", "", <<>>),
                   new |-> Req("", "", <<>>), net |-> <<>>]
    /\ roundTrip = NoRoundTrip
    /\ now = 0
    /\ issued = <<>>
    /\ workers = [w \in 1..NumWorkers |-> {}]
    /\ delivered = NoneDelivered
    /\ proc = "running"
    /\ alerts = 0
    /\ NoArticles
    /\ NoTransactions
    /\ listed = NothingListed
    /\ tokens = NoTokens

BindNext ==
    \/ \E u \in Users : GenerateBindCodeCheck(u, ServiceTelegram)
    \/ \E c \in BagToSet(calls) : UpdateBindCodeUpdate(c)
    \/ \E c \in BagToSet(calls) : UpdateBindCodeInsert(c)
    \/ \E chat \in Chats, code \in 1..Len(issued) : HandleBindCodeFind(chat, code)
    \/ \E c \in BagToSet(calls) : HandleBindCodeConfirm(c)
    \/ \E u \in Users, chat \in Chats : WebAppConfirmCheck(u, chat)
    \/ \E c \in BagToSet(calls) : WebAppConfirmWrite(c)
    \/ \E chat \in Chats, e \in Emails : HandleEmailInputCheck(chat, e)
    \/ \E c \in BagToSet(calls) : HandleEmailInputWrite(c)
    \/ \E u \in Users : UnbindService(u)
    \/ Tick
    \/ \E t \in BagToSet(tasks) : SyncAllStart(t)
    \/ \E t \in BagToSet(tasks) : SyncCreateAdd(t)
    \/ \E t \in BagToSet(tasks) : UpdateUserDataList(t)
    \/ \E t \in BagToSet(tasks) : UpdateUserDataSet(t)

BindSpec == BindInit /\ [][BindNext]_vars

\* The Go scheduler runs every goroutine that can run, and the clock is not
\* part of the program: only the goroutines and the handlers past their
\* reads are bound to move.
FairBindSpec ==
    /\ BindSpec
    /\ WF_vars(\E t \in BagToSet(tasks) :
                  SyncAllStart(t) \/ SyncCreateAdd(t) \/ UpdateUserDataList(t)
                      \/ UpdateUserDataSet(t))
    /\ WF_vars(\E c \in BagToSet(calls) :
                  UpdateBindCodeUpdate(c) \/ UpdateBindCodeInsert(c)
                      \/ HandleBindCodeConfirm(c) \/ WebAppConfirmWrite(c)
                      \/ HandleEmailInputWrite(c))

(***************************************************************************)
(* C14.  In every reachable state no two rows of notification_bindings     *)
(* have the same (service, service_id), however the confirmation of a bind *)
(* code, the confirmation from the web app and the binding started from    *)
(* the chat are interleaved.                                               *)
(***************************************************************************)
C14_ServiceIDUnique ==
    \A a, b \in bindings :
        (a.service = b.service /\ a.serviceID = b.serviceID) => a = b

\* the one request of the run came from the chat that user 1 is bound to,
\* named another account, and its INSERT was refused
C14_Witness ==
    /\ nOps = 1 /\ calls = EmptyBag /\ result = "Failed"
    /\ \E b \in bindings : b.user = 1 /\ b.serviceID = <<"7">>

(***************************************************************************)
(* C15.  In every reachable state notification_bindings has at most one    *)
(* row for each (user, service), also when one user asks for bind codes    *)
(* in two requests that overlap.                                           *)
(***************************************************************************)
C15_OnePerUserService ==
    \A a, b \in bindings :
        (a.user = b.user /\ a.service = b.service) => a = b

\* two requests for a bind code, both past their UPDATE of no row; the
\* INSERT of the second was refused
C15_Witness ==
    /\ nOps = 2 /\ Len(issued) = 2 /\ calls = EmptyBag /\ result = "SaveFailed"
    /\ \E b \in bindings : b.user = 2 /\ b.serviceID = <<>> /\ b.bindCode # 0

(***************************************************************************)
(* C16.  While a user U1 is bound to a chat, the attempt of another user   *)
(* U2 to bind that chat fails with an error shown to the user, and leaves  *)
(* the rows of both users as they were: handleBindCode and                 *)
(* TelegramWebAppConfirm answer with the conflict message before they      *)
(* write, no handler that reaches its write changes a row, and             *)
(* handleEmailInput, which makes no check of the chat before its write,    *)
(* answers with the failure message and starts no sync.                    *)
(***************************************************************************)
TakenByOther(userID, chat) ==
    \E b \in FindByServiceID(ServiceTelegram, FormatInt(chat)) : b.user # userID

Waiting(userID) ==
    \A b \in BindingsOf(userID, ServiceTelegram) : b.serviceID = <<>>

C17_CodeExpires ==
    [][/\ \A chat \in Chats, code \in 1..Len(issued) :
             (HandleBindCodeFind(chat, code) /\ now >= issued[code] + BindCodeTTL)
                 => result' = "InvalidOrExpired" /\ calls' = calls
                        /\ bindings' = bindings
       /\ \A c \in BagToSet(calls) :
             (HandleBindCodeConfirm(c) /\ bindings' # bindings)
                 => c.at < issued[c.code] + BindCodeTTL]_vars

\* the only code made so far is still on its row, its time is over, and
\* the chat that presented it was told so
C17_Witness ==
    /\ Len(issued) = 1 /\ result = "InvalidOrExpired"
    /\ \E b \in bindings : b.bindCode = 1 /\ b.expiresAt <= now /\ b.serviceID = <<>>

(***************************************************************************)
(* C18.  Once the binding of a user is confirmed, every subscription the   *)
(* user holds is in the cache in the end, unless the binding is removed    *)
(* again: the account is in <kind>:<board>:subs of each subscription, the  *)
(* board is in boards, and user:<account> carries the chat id of the       *)
(* binding.                                                                *)
(***************************************************************************)
BindingConfirmed(userID) ==
    \E b \in BindingsOf(userID, ServiceTelegram) : b.serviceID # <<>>

HeldInCache(userID) ==
    \A x \in Rows(ListByUserID(subs, userID)) :
        /\ <<x.subType, x.board, GetWebAccount(userID)>> \in cacheSubs
        /\ x.board \in cacheBoards
        /\ GetWebAccount(userID) \in DOMAIN cacheUser
        /\ cacheUser[GetWebAccount(userID)].TelegramChat =
               ParseInt(FindByUserAndService(userID))

C18_BindingSyncsCache ==
    \A u \in Users :
        BindingConfirmed(u) ~> (HeldInCache(u) \/ ~BindingConfirmed(u))

(***************************************************************************)
(* Dispatcher.  Broadcaster.Send starts one goroutine per cached user;     *)
(* each copies the Telegram fields of the cached profile and sends itself  *)
(* into ckCh, a channel made without a buffer.  The messageWorker          *)
(* goroutines receive from ckCh and call sendMessage.                      *)
(***************************************************************************)
\* the platforms a caller of Broadcaster.Send names
Platforms == {"telegram", "line"}

LegacyProfile ==
    [Enable |-> TRUE, Telegram |-> <<>>, TelegramChat |-> 0, Subscribes |-> {}]

\* the check a Broadcaster carries into ckCh
Message(account, profile) ==
    [account |-> account, Telegram |-> profile.Telegram,
     TelegramChat |-> profile.TelegramChat]

\* go bc.sendTelegram(u), standing at ckCh <- bc
SendTask(msg) == [kind |-> "sendTelegram", pc |-> "send", msg |-> msg]

\* models.User().All(): the profiles under user:<account>
All == {Message(a, cacheUser[a]) : a \in DOMAIN cacheUser}

RECURSIVE SendTasks(_)
SendTasks(msgs) ==
    IF msgs = {} THEN EmptyBag
    ELSE LET m == CHOOSE x \in msgs : TRUE
         IN  One(SendTask(m)) (+) SendTasks(msgs \ {m})

\* the binding of the account is there, confirmed and enabled
BindingEnabled(account) ==
    \E b \in bindings : /\ GetWebAccount(b.user) = account
                         /\ b.service = ServiceTelegram
                         /\ b.serviceID # <<>>
                         /\ b.enabled

dispatchFixed == <<workload, users, roleLimits, subs, nextID, stats, cache, calls,
                   ghosts, now, issued, pushsum, database, listed, tokens>>

\* bc.Msg: the text of the broadcast, told apart by the request that sent it
WithMsg(u, msg) == [account |-> u.account, Telegram |-> u.Telegram,
                    TelegramChat |-> u.TelegramChat, Msg |-> msg]

\* Broadcaster.Send
BroadcastSend(plfm) ==
    /\ proc = "running"
    /\ nOps < MaxBindOps
    /\ nOps' = nOps + 1
    /\ IF plfm # "telegram"
       THEN /\ result' = "NotInBroadcastList"
            /\ UNCHANGED tasks
       ELSE /\ tasks' = tasks (+) SendTasks({WithMsg(u, nOps + 1) : u \in All})
            /\ result' = "ok"
    /\ UNCHANGED <<bindings, workers, delivered, proc, alerts, dispatchFixed>>

\* ckCh <- bc meets ck := <-ckCh: a worker that waits at the channel takes
\* the check of a sender that waits at it
MessageWorkerReceive(w, t) ==
    /\ proc = "running"
    /\ Pending(t) /\ t.kind = "sendTelegram" /\ t.pc = "send"
    /\ workers[w] = {}
    /\ workers' = [workers EXCEPT ![w] = {t.msg}]
    /\ tasks' = Finish(t)
    /\ UNCHANGED <<bindings, result, nOps, delivered, proc, alerts, dispatchFixed>>

\* what bot.Send can do: deliver, return an error, or panic
Outcomes == {"ok", "failed", "panic"}

\* counter.IncrAlert
IncrAlert(n) == n + 1

\* what sendMessage did with message m
Sent(m, outcome) ==
    [account |-> m.account, chat |-> m.TelegramChat, Msg |-> m.Msg,
     sent |-> m.Telegram # <<>>, bound |-> BindingEnabled(m.account),
     outcome |-> IF m.Telegram = <<>> THEN "dropped" ELSE outcome]

\* sendMessage: the warning and return for a profile without Telegram;
\* sendTelegram, counter.IncrAlert and the log line otherwise.
\* sendTextMessage logs the error of bot.Send and returns nothing, and
\* nothing between messageWorker and bot.Send calls recover: a panic ends
\* the process with all its goroutines.
SendMessage(w, outcome) ==
    /\ proc = "running"
    /\ workers[w] # {}
    /\ LET m == CHOOSE x \in workers[w] : TRUE
       IN  /\ delivered' = [delivered EXCEPT
                              ![m.account] = Append(@, Sent(m, outcome))]
           /\ IF m.Telegram = <<>>
              THEN outcome = "ok" /\ UNCHANGED <<proc, alerts>>
              ELSE IF outcome = "panic"
              THEN proc' = "crashed" /\ UNCHANGED alerts
              ELSE alerts' = IncrAlert(alerts) /\ UNCHANGED proc
    /\ workers' = IF proc' = "crashed" THEN workers
                  ELSE [workers EXCEPT ![w] = {}]
    /\ UNCHANGED <<bindings, tasks, result, nOps, dispatchFixed>>

\* main: <-quit, srv.Shutdown with its 5 seconds, return
Shutdown ==
    /\ proc = "running"
    /\ proc' = "exited"
    /\ UNCHANGED <<bindings, tasks, result, nOps, workers, delivered, alerts,
                   dispatchFixed>>

\* SetBindingEnabled: SetEnabled, ErrBindingNotFound when RowsAffected is 0
SetBindingEnabled(userID, enabled) ==
    /\ proc = "running"
    /\ nOps < MaxBindOps
    /\ nOps' = nOps + 1
    /\ IF BindingsOf(userID, ServiceTelegram) = {}
       THEN result' = "NotFound" /\ UNCHANGED bindings
       ELSE /\ bindings' = (bindings \ BindingsOf(userID, ServiceTelegram)) \cup
                   {[b EXCEPT !.enabled = enabled] :
                       b \in BindingsOf(userID, ServiceTelegram)}
            /\ result' = "ok"
    /\ UNCHANGED <<tasks, workers, delivered, proc, alerts, dispatchFixed>>

\* both users bound and synced with one subscription each, and the legacy
\* profile; every worker waits at the channel
DispatchInit ==
    /\ workload = WorkloadBoards
    /\ users = (1 :> [role |-> "user", enabled |-> TRUE]) @@
               (2 :> [role |-> "admin", enabled |-> TRUE])
    /\ roleLimits = ("admin" :> -1) @@ ("vip" :> 20) @@ ("user" :> 3)
    /\ bindings = {Binding(1, ServiceTelegram, <<"7">>, 0, 0, TRUE),
                   Binding(2, ServiceTelegram, <<"8">>, 0, 0, TRUE)}
    /\ subs = <<Row(2, 2, Req("b1", "keyword", <<"a">>), TRUE),
                Row(1, 1, Req("b1", "keyword", <<"a">>), TRUE)>>
    /\ nextID = Len(subs) + 1
    /\ stats = (StatKey("b1", "keyword", <<"a">>) :> 2)
    /\ cacheBoards = {"b1"}
    /\ cacheSubs = {<<"keyword", "b1", GetWebAccount(u)>> : u \in Users}
    /\ cacheUser = [a \in {GetWebAccount(u) : u \in Users} \cup {LegacyAccount} |->
                        IF a = LegacyAccount THEN LegacyProfile
                        ELSE LET u == CHOOSE x \in Users : GetWebAccount(x) = a
                             IN  Profile(Account(u), ParseInt(FindByUserAndService(u)),
                                         ListByUserID(subs, u))]
    /\ calls = EmptyBag
    /\ tasks = EmptyBag
    /\ result = "none"
    /\ nOps = 0
    /\ statDone = [src |-> "none", old |-> Req("", "", <<>>),
                   new |-> Req("", "", <<>>), net |-> <<>>]
    /\ roundTrip = NoRoundTrip
    /\ now = 0
    /\ issued = <<>>
    /\ workers = [w \in 1..NumWorkers |-> {}]
    /\ delivered = NoneDelivered
    /\ proc = "running"
    /\ alerts = 0
    /\ NoArticles
    /\ NoTransactions
    /\ listed = NothingListed
    /\ tokens = NoTokens

DispatchNext ==
    \/ \E plfm \in Platforms : BroadcastSend(plfm)
    \/ \E w \in 1..NumWorkers, t \in BagToSet(tasks) : MessageWorkerReceive(w, t)
    \/ \E w \in 1..NumWorkers, o \in Outcomes : SendMessage(w, o)
    \/ \E u \in Users, e \in BOOLEAN : SetBindingEnabled(u, e)
    \/ \E u \in Users : proc = "running" /\ UnbindService(u)
    \/ Shutdown

DispatchSpec == DispatchInit /\ [][DispatchNext]_vars

(***************************************************************************)
(* C19.  sendMessage never sends to a user whose binding is disabled or    *)
(* missing when the worker dispatches the message: every message that was  *)
(* sent went to an account whose binding was there and enabled then.       *)
(***************************************************************************)
C19_NoSendWithoutBinding ==
    \A a \in Accounts : \A i \in DOMAIN delivered[a] :
        delivered[a][i].sent => delivered[a][i].bound

(***************************************************************************)
(* C20.  A send into ckCh never blocks: no sender stands at ckCh <- bc     *)
(* while every messageWorker is inside sendMessage.                        *)
(***************************************************************************)
C20_SendNeverBlocks ==
    \A t \in BagToSet(tasks) :
        (t.kind = "sendTelegram" /\ t.pc = "send") =>
            \E w \in 1..NumWorkers : workers[w] = {}

(***************************************************************************)
(* C21.  A panic raised while sending one message is recovered inside the  *)
(* worker, so the pool keeps running: no send that panicked has brought    *)
(* the process and its workers down.                                       *)
(***************************************************************************)
C21_PanicIsRecovered ==
    (\E a \in Accounts : \E i \in DOMAIN delivered[a] :
        delivered[a][i].outcome = "panic") => proc # "crashed"

\* the sends of every account that bot.Send answered without an error
Succeeded ==
    {<<a, i>> \in Accounts \X (1..MaxBindOps) :
        i \in DOMAIN delivered[a] /\ delivered[a][i].outcome = "ok"}

(***************************************************************************)
(* C22.  The alerts-sent counter is the number of messages whose send to   *)
(* the chat platform succeeded: a dropped message and a failed send do not *)
(* count.                                                                  *)
(***************************************************************************)
C22_AlertsCountSuccesses ==
    alerts = Cardinality(Succeeded)

(***************************************************************************)
(* C23.  Two messages emitted for the same subscriber reach the chat       *)
(* platform in the order in which they were emitted.                       *)
(***************************************************************************)
C23_DeliveredInEmissionOrder ==
    \A a \in Accounts : \A i, j \in DOMAIN delivered[a] :
        (i < j /\ delivered[a][i].sent /\ delivered[a][j].sent) =>
            delivered[a][i].Msg <= delivered[a][j].Msg

(***************************************************************************)
(* C24.  When the process has exited on shutdown, the workers have         *)
(* processed the messages that were in the channel: no sender is left at   *)
(* ckCh <- bc and no worker is left inside sendMessage.                    *)
(***************************************************************************)
C24_ShutdownDrainsChannel ==
    proc = "exited" =>
        /\ \A t \in BagToSet(tasks) : t.kind # "sendTelegram"
        /\ \A w \in 1..NumWorkers : workers[w] = {}

(***************************************************************************)
(* Push-count poller (jobs.NewPushSumChecker().Run(), started by           *)
(* startJobs): the articles of board b1, their push_sum as comments come   *)
(* in, and the rounds of the poller over the pushsum subscribers           *)
(***************************************************************************)
PushBoard == "b1"

\* the positive threshold of the account on the board, 0 when it has none
Threshold(account) ==
    IF <<"pushsum", PushBoard, account>> \notin cacheSubs
       \/ account \notin DOMAIN cacheUser
    THEN 0
    ELSE LET on == {x \in cacheUser[account].Subscribes : x.Board = PushBoard}
         IN  IF on = {} THEN 0 ELSE (CHOOSE x \in on : TRUE).PushSum.Up

InFeed == {c \in Codes : feed[c].at = "feed"}

\* the "already notified" state of the article for the account
AlreadyNotifiedNever(account, code) == FALSE

AlreadyNotified(account, code) == <<account, code>> \in notified

\* the article stands at or over the threshold of the account
Over(account, code) ==
    /\ Threshold(account) > 0
    /\ code \in InFeed
    /\ feed[code].pushSum >= Threshold(account)

pushFixed == <<workload, users, roleLimits, bindings, subs, nextID, stats, cache, calls,
               tasks, result, nOps, ghosts, now, issued, workers, delivered, proc,
               alerts, database, listed, tokens>>

\* a new article enters the feed window of the board
Publish(code) ==
    /\ feed[code].at = "unpublished"
    /\ feed' = [feed EXCEPT ![code] = [at |-> "feed", pushSum |-> 0]]
    /\ UNCHANGED <<notified, emitted, firstOver, nPolls, pushFixed>>

\* a push (+1) or a boo (-1) is written under an article
Comment(code, d) ==
    /\ code \in InFeed
    /\ feed[code].pushSum + d \in 0..MaxPushSum
    /\ feed' = [feed EXCEPT ![code].pushSum = @ + d]
    /\ UNCHANGED <<notified, emitted, firstOver, nPolls, pushFixed>>

\* the article ages out of the feed window
AgeOut(code) ==
    /\ code \in InFeed
    /\ feed' = [feed EXCEPT ![code].at = "aged"]
    /\ UNCHANGED <<notified, emitted, firstOver, nPolls, pushFixed>>

\* one round of the poller: every article of the feed window that stands at
\* the threshold of a subscriber and was not notified to it is emitted and
\* marked; the state of articles that left the window is cleared
PushSumCheck ==
    /\ nPolls < MaxPolls
    /\ nPolls' = nPolls + 1
    /\ LET new == {<<a, c>> \in Accounts \X Codes :
                      Over(a, c) /\ ~AlreadyNotified(a, c)}
       IN  /\ emitted' = emitted \cup
                  {[account |-> n[1], code |-> n[2], poll |-> nPolls + 1,
                    pushSum |-> feed[n[2]].pushSum] : n \in new}
           /\ notified' = {n \in notified \cup new : n[2] \in InFeed}
    /\ firstOver' = [a \in Accounts |-> [c \in Codes |->
                        IF firstOver[a][c] = 0 /\ Over(a, c) THEN nPolls + 1
                        ELSE firstOver[a][c]]]
    /\ UNCHANGED <<feed, pushFixed>>

\* user 1 subscribes pushsum +2 and user 2 pushsum +3 on the board, both
\* synced into the cache
PushInit ==
    /\ workload = WorkloadPushSum
    /\ users = (1 :> [role |-> "user", enabled |-> TRUE]) @@
               (2 :> [role |-> "admin", enabled |-> TRUE])
    /\ roleLimits = ("admin" :> -1) @@ ("vip" :> 20) @@ ("user" :> 3)
    /\ bindings = {Binding(1, ServiceTelegram, <<"7">>, 0, 0, TRUE),
                   Binding(2, ServiceTelegram, <<"8">>, 0, 0, TRUE)}
    /\ subs = <<Row(2, 2, Req(PushBoard, "pushsum", <<"+", "3">>), TRUE),
                Row(1, 1, Req(PushBoard, "pushsum", <<"+", "2">>), TRUE)>>
    /\ nextID = Len(subs) + 1
    /\ stats = (StatKey(PushBoard, "pushsum", <<"+", "2">>) :> 1) @@
               (StatKey(PushBoard, "pushsum", <<"+", "3">>) :> 1)
    /\ cacheBoards = {PushBoard}
    /\ cacheSubs = {<<"pushsum", PushBoard, GetWebAccount(u)>> : u \in Users}
    /\ cacheUser = [a \in {GetWebAccount(u) : u \in Users} |->
                        LET u == CHOOSE x \in Users : GetWebAccount(x) = a
                        IN  Profile(Account(u), ParseInt(FindByUserAndService(u)),
                                    ListByUserID(subs, u))]
    /\ calls = EmptyBag
    /\ tasks = EmptyBag
    /\ result = "none"
    /\ nOps = 0
    /\ statDone = [src |-> "none", old |-> Req("", "", <<>>),
                   new |-> Req("", "", <<>>), net |-> <<>>]
    /\ roundTrip = NoRoundTrip
    /\ now = 0
    /\ issued = <<>>
    /\ workers = [w \in 1..NumWorkers |-> {}]
    /\ delivered = NoneDelivered
    /\ proc = "running"
    /\ alerts = 0
    /\ NoArticles
    /\ NoTransactions
    /\ listed = NothingListed
    /\ tokens = NoTokens

PushNext ==
    \/ \E c \in Codes : Publish(c)
    \/ \E c \in Codes, d \in {-1, 1} : Comment(c, d)
    \/ \E c \in Codes : AgeOut(c)
    \/ PushSumCheck

PushSpec == PushInit /\ [][PushNext]_vars

(***************************************************************************)
(* C25.  For a pushsum subscription with positive threshold T, an article  *)
(* produces no message while its push_sum is below T, exactly one message  *)
(* for the subscriber at the first poll that finds push_sum >= T, and no   *)
(* further message at later polls while it stays in the feed window.       *)
(***************************************************************************)
C25_OncePerThreshold ==
    /\ \A m \in emitted :
           /\ m.pushSum >= Threshold(m.account)
           /\ m.poll = firstOver[m.account][m.code]
    /\ \A a \in Accounts, c \in Codes :
           firstOver[a][c] # 0 =>
               Cardinality({m \in emitted : m.account = a /\ m.code = c}) = 1

\* an article was polled below the threshold, then at it, then once more
\* while still in the feed window and still over
C25_Witness ==
    \E m \in emitted :
        /\ m.poll > 1
        /\ nPolls > m.poll
        /\ Over(m.account, m.code)

(***************************************************************************)
(* Administration: roles and users.  AdminDeleteRole runs Delete of        *)
(* RoleLimitPostgres in two statements, the count and the DELETE, and      *)
(* other requests run in between; users.role REFERENCES role_limits(role), *)
(* and subscriptions and notification_bindings REFERENCE users(id) ON      *)
(* DELETE CASCADE.                                                         *)
(***************************************************************************)
Roles == {"admin", "vip", "user"}

builtInRoles == {"admin", "user"}

\* SELECT COUNT(*) FROM users WHERE role = $1
CountUsers(role) == Cardinality({u \in DOMAIN users : users[u].role = role})

\* users_role_fk: a users row refers to the role
ReferencedNever(role) == FALSE

Referenced(role) == \E u \in DOMAIN users : users[u].role = role

adminFixed == <<workload, nextID, stats, cacheBoards, cacheSubs, ghosts, aside>>

\* AdminDeleteRole up to the count of RoleLimitPostgres.Delete
AdminDeleteRoleCount(role) ==
    /\ nOps < MaxBindOps
    /\ nOps' = nOps + 1
    /\ IF role \in builtInRoles
       THEN result' = "StatusForbidden" /\ UNCHANGED calls
       ELSE IF CountUsers(role) > 0
       THEN result' = "ErrRoleInUse" /\ UNCHANGED calls
       ELSE /\ calls' = calls (+) One([op |-> "DeleteRole", role |-> role])
            /\ UNCHANGED result
    /\ UNCHANGED <<users, roleLimits, bindings, subs, cacheUser, tasks, adminFixed>>

\* DELETE FROM role_limits WHERE role = $1: refused by the foreign key while
\* a users row refers to the role, ErrRoleLimitNotFound when no row went
AdminDeleteRoleExec(c) ==
    /\ InFlight(c) /\ c.op = "DeleteRole"
    /\ calls' = calls (-) One(c)
    /\ IF c.role \notin DOMAIN roleLimits
       THEN result' = "ErrRoleLimitNotFound" /\ UNCHANGED roleLimits
       ELSE IF Referenced(c.role)
       THEN result' = "ErrForeignKey" /\ UNCHANGED roleLimits
       ELSE /\ roleLimits' = [r \in DOMAIN roleLimits \ {c.role} |-> roleLimits[r]]
            /\ result' = "ok"
    /\ UNCHANGED <<users, bindings, subs, cacheUser, tasks, nOps, adminFixed>>

\* Postgres.Update of accounts: UPDATE users SET role = $1, enabled = $2;
\* no row matched is no error, a role without a role_limits row is one.
\* AdminUpdateUser passes admin or user only; the statement takes any role.
AccountUpdate(id, role, enabled) ==
    /\ nOps < MaxBindOps
    /\ nOps' = nOps + 1
    /\ IF id \notin DOMAIN users
       THEN result' = "ok" /\ UNCHANGED users
       ELSE IF role \notin DOMAIN roleLimits
       THEN result' = "dbError" /\ UNCHANGED users
       ELSE /\ users' = [users EXCEPT ![id] = [role |-> role, enabled |-> enabled]]
            /\ result' = "ok"
    /\ UNCHANGED <<roleLimits, bindings, subs, cacheUser, calls, tasks, adminFixed>>

\* go redisSync.SyncUserDelete(acc)
SyncUserDeleteTask(acc) == [kind |-> "syncUserDelete", pc |-> "del", acc |-> acc]

\* AdminDeleteUser: FindByID, DELETE FROM users with its cascades, then the
\* go statement when the account was found
AdminDeleteUser(id) ==
    /\ nOps < MaxBindOps
    /\ nOps' = nOps + 1
    /\ users' = [u \in DOMAIN users \ {id} |-> users[u]]
    /\ subs' = SelectSeq(subs, LAMBDA r : r.user # id)
    /\ bindings' = {b \in bindings : b.user # id}
    /\ tasks' = IF id \in DOMAIN users
                THEN tasks (+) One(SyncUserDeleteTask(Account(id)))
                ELSE tasks
    /\ result' = "ok"
    /\ UNCHANGED <<roleLimits, cacheUser, calls, adminFixed>>

\* SyncUserDelete: DEL user:<account>
SyncUserDelete(t) ==
    /\ BagIn(t, tasks) /\ t.kind = "syncUserDelete"
    /\ tasks' = tasks (-) One(t)
    /\ cacheUser' = [a \in DOMAIN cacheUser \ {GetWebAccount(t.acc.id)} |-> cacheUser[a]]
    /\ UNCHANGED <<users, roleLimits, bindings, subs, calls, result, nOps, adminFixed>>

AdminNext ==
    \/ \E role \in Roles : AdminDeleteRoleCount(role)
    \/ \E c \in BagToSet(calls) : AdminDeleteRoleExec(c)
    \/ \E u \in Users, role \in Roles, e \in BOOLEAN : AccountUpdate(u, role, e)
    \/ \E u \in Users : AdminDeleteUser(u)
    \/ \E t \in BagToSet(tasks) : SyncUserDelete(t)

\* the store and the cache of the dispatcher runs: two bound users, each
\* with a subscription, both synced
AdminSpec == DispatchInit /\ [][AdminNext]_vars

(***************************************************************************)
(* C26.  A role that a user holds is never deleted: every step leaves its  *)
(* role_limits row in place, and a delete request that ends while a user   *)
(* holds the role ends in an error -- also when the user was given the     *)
(* role after the request counted the users of the role.                   *)
(***************************************************************************)
C26_HeldRoleNotDeleted ==
    [][\A r \in DOMAIN roleLimits :
          (\E u \in DOMAIN users : users[u].role = r) =>
              /\ r \in DOMAIN roleLimits'
              /\ \A c \in BagToSet(calls) :
                     (c.op = "DeleteRole" /\ c.role = r /\ calls' = calls (-) One(c))
                         => result' # "ok"]_vars

\* a delete request counted no user of the role, a user was given the role,
\* and the DELETE was refused
C26_Witness ==
    /\ result = "ErrForeignKey"
    /\ \E u \in DOMAIN users : users[u].role = "vip"
    /\ "vip" \in DOMAIN roleLimits

(***************************************************************************)
(* C27.  After a user is deleted and the goroutine of the request has      *)
(* run, no subscription row and no binding row of the user remains, and    *)
(* the cache holds neither the profile of the user nor the user in any     *)
(* subscriber set.                                                         *)
(***************************************************************************)
C27_DeletedUserLeavesNothing ==
    \A u \in Users :
        (u \notin DOMAIN users /\ tasks = EmptyBag) =>
            /\ ListByUserID(subs, u) = <<>>
            /\ \A b \in bindings : b.user # u
            /\ GetWebAccount(u) \notin DOMAIN cacheUser
            /\ \A e \in cacheSubs : e[3] # GetWebAccount(u)

(***************************************************************************)
(* What UpdateSubscription and DeleteSubscription answer for the error of  *)
(* SubscriptionPostgres.Update and Delete; a caller who is no admin is     *)
(* passed on as userID with claims.UserID                                  *)
(***************************************************************************)
Status(err) ==
    CASE err = "ok" -> "StatusOK"
      [] err = "ErrSubscriptionNotFound" -> "StatusNotFound"
      [] err = "ErrBoardNotFound" -> "StatusBadRequest"
      [] OTHER -> "StatusInternalServerError"

\* the subscription is there and belongs to another user than the caller,
\* who is no admin
NotOwnerNorAdmin(id, userID) ==
    /\ users[userID].role # "admin"
    /\ \E x \in FindByID(subs, id) : x.user # userID

(***************************************************************************)
(* C28.  A request to update or delete a subscription made by a user who   *)
(* is neither its owner nor an admin is answered 403 Forbidden and leaves  *)
(* the subscription rows, the cache and the stats as they were.            *)
(***************************************************************************)
C28_NonOwnerForbidden ==
    [][\A id \in 1..nextID, u \in Users :
          (/\ NotOwnerNorAdmin(id, u)
           /\ \/ \E r \in workload : UpdateCheck(id, u, r, r.enabled)
              \/ DeleteCheck(id, u))
          => /\ Status(result') = "StatusForbidden"
             /\ UNCHANGED <<subs, cache, stats>>]_vars

(***************************************************************************)
(* The article store.  Save of article.Postgres and Save of board.Postgres *)
(* each run their statements in one transaction (pool.Begin, defer         *)
(* tx.Rollback, tx.Commit) at READ COMMITTED: a statement sees the rows    *)
(* committed so far, the rows a transaction writes are seen by the others  *)
(* when it commits, and a written row stays locked until then.  Rows carry *)
(* the transaction that wrote them.                                        *)
(***************************************************************************)
Article(code, pushSum, comments) ==
    [Code |-> code, Board |-> "b1", PushSum |-> pushSum, Comments |-> comments]

\* the comment lists an article page is fetched with
CommentLists == {<<"p">>, <<"p", "n">>}

\* the batches a board feed is stored with
Batches == {<<Article("x", v, <<>>), Article("y", v, <<>>)>> : v \in 1..MaxTx}

\* a transaction: done counts its article upserts, del holds the comment
\* rows its DELETE removed, seen the transactions open at its Begin
Tx(id, kind, batch) ==
    [id |-> id, kind |-> kind, pc |-> "begun", batch |-> batch, done |-> 0,
     del |-> {}, seen |-> {j \in DOMAIN txs : txs[j].pc \notin {"committed", "rolledback"}}]

Open(i) == i \in DOMAIN txs /\ txs[i].pc \notin {"committed", "rolledback"}

\* the rows the transaction has written and holds locked
Locks(t) ==
    {<<"article", t.batch[n].Code>> : n \in 1..t.done}
        \cup (IF t.kind = "board" /\ t.pc # "begun" THEN {<<"board", "b1">>} ELSE {})

\* ON CONFLICT DO UPDATE waits while another transaction holds the row
LockedByOtherNever(i, row) == FALSE

LockedByOther(i, row) ==
    \E j \in DOMAIN txs : j # i /\ Open(j) /\ row \in Locks(txs[j])

\* the comment rows the transaction inserts
CommentRows(t) ==
    IF t.kind = "article" /\ t.pc = "inserted"
    THEN [n \in 1..Len(t.batch[1].Comments) |->
              [by |-> t.id, n |-> n, tag |-> t.batch[1].Comments[n]]]
    ELSE <<>>

\* countCommentsByTag: "p" stands for the tag of a push, "n" for that of a boo
countCommentsByTag(comments) ==
    [positive |-> Cardinality({n \in DOMAIN comments : comments[n] = "p"}),
     negative |-> Cardinality({n \in DOMAIN comments : comments[n] = "n"})]

\* the tables with the writes of the transaction in place; the upsert of
\* board.Save leaves positive_count and negative_count as they are
Apply(d, t) ==
    LET codes == {t.batch[n].Code : n \in 1..t.done}
        row(c) == LET a == t.batch[CHOOSE n \in 1..t.done : t.batch[n].Code = c]
                      counted == IF t.kind = "article"
                                 THEN countCommentsByTag(a.Comments)
                                 ELSE IF c \in DOMAIN d.articles
                                 THEN [positive |-> d.articles[c].positive,
                                       negative |-> d.articles[c].negative]
                                 ELSE [positive |-> 0, negative |-> 0]
                  IN  [board |-> a.Board, pushSum |-> a.PushSum, by |-> t.id,
                       positive |-> counted.positive, negative |-> counted.negative]
    IN  [boards   |-> IF <<"board", "b1">> \in Locks(t)
                      THEN [d.boards EXCEPT !["b1"] = t.id] ELSE d.boards,
         articles |-> [c \in DOMAIN d.articles \cup codes |->
                          IF c \in codes THEN row(c) ELSE d.articles[c]],
         comments |-> [c \in Codes |->
                          IF t.kind = "article" /\ c \in codes
                          THEN SelectSeq(d.comments[c], LAMBDA r : r \notin t.del)
                                   \o CommentRows(t)
                          ELSE d.comments[c]]]

\* tx.Rollback: none of the writes of the transaction is kept
RollbackKeeps(d, t) == Apply(d, t)

Rollback(d, t) == d

storeFixed == <<workload, users, roleLimits, bindings, subs, nextID, stats, cache, calls,
                tasks, result, nOps, ghosts, now, issued, workers, delivered, proc,
                alerts, pushsum, listed, tokens>>

\* pool.Begin of either Save; article.Save then runs INSERT INTO boards ...
\* ON CONFLICT (name) DO NOTHING, which finds the board
Begin(kind, batch) ==
    /\ Len(txs) < MaxTx
    /\ txs' = Append(txs, Tx(Len(txs) + 1, kind, batch))
    /\ UNCHANGED <<db, saved, storeFixed>>

\* CommentAggregator.Run for one article of getRecentArticles: the fetched
\* page with ID, Date, Author and PushSum copied from the stored row, saved
Fetched(code, comments) ==
    [Code |-> code, Board |-> db.articles[code].board,
     PushSum |-> db.articles[code].pushSum, Comments |-> comments,
     Job |-> "CommentAggregator"]

\* board.Save: INSERT INTO boards ... ON CONFLICT (name) DO UPDATE
UpsertBoard(i) ==
    /\ Open(i) /\ txs[i].kind = "board" /\ txs[i].pc = "begun"
    /\ ~LockedByOther(i, <<"board", "b1">>)
    /\ txs' = [txs EXCEPT ![i].pc = "board"]
    /\ UNCHANGED <<db, saved, storeFixed>>

\* INSERT INTO articles ... ON CONFLICT (code) DO UPDATE: the one of
\* article.Save, and the next one of the loop of board.Save
UpsertArticle(i) ==
    /\ Open(i)
    /\ txs[i].pc = IF txs[i].kind = "board" THEN "board" ELSE "begun"
    /\ txs[i].done < Len(txs[i].batch)
    /\ ~LockedByOther(i, <<"article", txs[i].batch[txs[i].done + 1].Code>>)
    /\ txs' = [txs EXCEPT ![i].done = @ + 1,
                          ![i].pc = IF txs[i].kind = "board" THEN @ ELSE "upserted"]
    /\ UNCHANGED <<db, saved, storeFixed>>

\* article.Save: DELETE FROM comments WHERE article_code = $1
DeleteComments(i) ==
    /\ Open(i) /\ txs[i].kind = "article" /\ txs[i].pc = "upserted"
    /\ txs' = [txs EXCEPT ![i].pc = "deleted",
                          ![i].del = Rows(db.comments[txs[i].batch[1].Code])]
    /\ UNCHANGED <<db, saved, storeFixed>>

\* article.Save: the loop of INSERT INTO comments
InsertComments(i) ==
    /\ Open(i) /\ txs[i].kind = "article" /\ txs[i].pc = "deleted"
    /\ txs' = [txs EXCEPT ![i].pc = "inserted"]
    /\ UNCHANGED <<db, saved, storeFixed>>

\* tx.Commit after the last statement
Commit(i) ==
    /\ Open(i)
    /\ IF txs[i].kind = "article" THEN txs[i].pc = "inserted"
       ELSE txs[i].pc = "board" /\ txs[i].done = Len(txs[i].batch)
    /\ db' = Apply(db, txs[i])
    /\ txs' = [txs EXCEPT ![i].pc = "committed"]
    /\ saved' = IF txs[i].kind = "article"
                THEN [saved EXCEPT ![txs[i].batch[1].Code] = txs[i].batch[1].Comments]
                ELSE saved
    /\ UNCHANGED storeFixed

\* a statement or the commit returns an error: Save returns it and the
\* deferred tx.Rollback runs
Fail(i) ==
    /\ Open(i)
    /\ db' = Rollback(db, txs[i])
    /\ txs' = [txs EXCEPT ![i].pc = "rolledback"]
    /\ UNCHANGED <<saved, storeFixed>>

StoreNext ==
    \/ \E c \in Codes, l \in CommentLists : Begin("article", <<Article(c, 0, l)>>)
    \/ \E b \in Batches : Begin("board", b)
    \/ \E c \in DOMAIN db.articles, l \in CommentLists :
           Begin("article", <<Fetched(c, l)>>)
    \/ \E i \in DOMAIN txs : UpsertBoard(i)
    \/ \E i \in DOMAIN txs : UpsertArticle(i)
    \/ \E i \in DOMAIN txs : DeleteComments(i)
    \/ \E i \in DOMAIN txs : InsertComments(i)
    \/ \E i \in DOMAIN txs : Commit(i)
    \/ \E i \in DOMAIN txs : Fail(i)

StoreSpec == DispatchInit /\ [][StoreNext]_vars

(***************************************************************************)
(* C29.  The comment rows stored for the code of an article are exactly    *)
(* the comment list of the Save of it that committed last, also when two   *)
(* Saves of the article run at the same time: never rows of both, and      *)
(* never a row twice.                                                      *)
(***************************************************************************)
C29_CommentsAreLastSaved ==
    \A c \in Codes :
        /\ Len(db.comments[c]) = Len(saved[c])
        /\ \A n \in 1..Len(saved[c]) : db.comments[c][n].tag = saved[c][n]

\* two Saves of one article, the second begun while the first was open,
\* have both committed
C29_Witness ==
    \E i, j \in DOMAIN txs :
        /\ i \in txs[j].seen
        /\ txs[i].kind = "article" /\ txs[j].kind = "article"
        /\ txs[i].batch[1].Code = txs[j].batch[1].Code
        /\ txs[i].pc = "committed" /\ txs[j].pc = "committed"

(***************************************************************************)
(* C30.  Save of a board is all-or-nothing: the step in which it ends      *)
(* with an error leaves the article rows and the board row as they were,   *)
(* the step in which it commits puts every article of the batch in place,  *)
(* and no step in between changes the tables.                              *)
(***************************************************************************)
C30_SaveArticlesAtomic ==
    [][\A i \in DOMAIN txs :
          (txs[i].kind = "board" /\ txs'[i] # txs[i]) =>
              CASE txs'[i].pc = "rolledback" -> db' = db
                [] txs'[i].pc = "committed" ->
                      /\ db'.boards["b1"] = i
                      /\ \A n \in 1..Len(txs[i].batch) :
                             /\ txs[i].batch[n].Code \in DOMAIN db'.articles
                             /\ db'.articles[txs[i].batch[n].Code].by = i
                [] OTHER -> db' = db]_vars

\* a Save of a board failed after it upserted an article of its batch
C30_Witness ==
    \E i \in DOMAIN txs :
        /\ txs[i].kind = "board"
        /\ txs[i].pc = "rolledback"
        /\ txs[i].done > 0

(***************************************************************************)
(* C31.  After the comment aggregator has processed and saved an article,  *)
(* the stored article has push_sum = positive_count - negative_count.      *)
(***************************************************************************)
C31_PushSumReconciled ==
    \A c \in DOMAIN db.articles :
        LET row == db.articles[c]
        IN  (row.by # 0 /\ "Job" \in DOMAIN txs[row.by].batch[1]) =>
                row.pushSum = row.positive - row.negative

(***************************************************************************)
(* The Top-N read: ListSubscriptionStats over subscription_stats           *)
(***************************************************************************)
DefaultLimit == 100

\* the rows the read is tried on: two kinds on board b1, one more board
StatKeys == {StatKey("b1", "keyword", <<"a">>), StatKey("b1", "author", <<"a">>),
             StatKey("b1", "author", <<"b">>), StatKey("b2", "author", <<"a">>)}

StatRow(st, key) ==
    [board |-> key[1], subType |-> key[2], value |-> key[3], count |-> st[key]]

\* ORDER BY count DESC: the orders of the rows the database may answer in
OrderByCountDesc(rows) ==
    {q \in [1..Cardinality(rows) -> rows] :
        /\ \A i, j \in DOMAIN q : i # j => q[i] # q[j]
        /\ \A i, j \in DOMAIN q : i < j => q[i].count >= q[j].count}

\* LIMIT $2
Limit(q, n) == SubSeq(q, 1, IF n < Len(q) THEN n ELSE Len(q))

\* WHERE sub_type = $1 AND count > 0
ListByType(st, subType) ==
    {StatRow(st, k) : k \in {x \in DOMAIN st : x[2] = subType /\ st[x] > 0}}

\* WHERE board = $1 AND count > 0
ListByBoard(st, board) ==
    {StatRow(st, k) : k \in {x \in DOMAIN st : x[1] = board /\ st[x] > 0}}

topFixed == <<workload, users, roleLimits, bindings, subs, nextID, stats, cache, calls,
              tasks, result, nOps, ghosts, now, issued, workers, delivered, proc,
              alerts, pushsum, database, tokens>>

\* ListSubscriptionStats: type defaults to keyword and is validated, limit
\* defaults to 100 unless it parses to a positive number, and a board that
\* is given selects ListByBoard
ListSubscriptionStats(type, limitStr, board) ==
    LET subType == IF type = "" THEN "keyword" ELSE type
        limit   == IF limitStr # <<>> /\ ParseIntOK(limitStr) /\ ParseInt(limitStr) > 0
                   THEN ParseInt(limitStr) ELSE DefaultLimit
        rows    == IF board # "" THEN ListByBoard(stats, board)
                   ELSE ListByType(stats, subType)
    IN  /\ IF subType \notin {"keyword", "author", "pushsum"}
           THEN listed' = [type |-> subType, limit |-> limit, board |-> board,
                           status |-> "StatusBadRequest", rows |-> <<>>]
           ELSE \E q \in OrderByCountDesc(rows) :
                    listed' = [type |-> subType, limit |-> limit, board |-> board,
                               status |-> "StatusOK", rows |-> Limit(q, limit)]
        /\ UNCHANGED topFixed

\* subscription_stats with any counts on the rows, nothing read yet
TopInit ==
    /\ workload = WorkloadBoards
    /\ users = (1 :> [role |-> "user", enabled |-> TRUE]) @@
               (2 :> [role |-> "admin", enabled |-> TRUE])
    /\ roleLimits = ("admin" :> -1) @@ ("vip" :> 20) @@ ("user" :> 3)
    /\ bindings = {}
    /\ subs = <<>>
    /\ nextID = 1
    /\ stats \in [StatKeys -> 0..MaxCount]
    /\ cacheBoards = {}
    /\ cacheSubs = {}
    /\ cacheUser = <<>>
    /\ calls = EmptyBag
    /\ tasks = EmptyBag
    /\ result = "none"
    /\ nOps = 0
    /\ statDone = [src |-> "none", old |-> Req("", "", <<>>),
                   new |-> Req("", "", <<>>), net |-> <<>>]
    /\ roundTrip = NoRoundTrip
    /\ now = 0
    /\ issued = <<>>
    /\ workers = [w \in 1..NumWorkers |-> {}]
    /\ delivered = NoneDelivered
    /\ proc = "running"
    /\ alerts = 0
    /\ NoArticles
    /\ NoTransactions
    /\ listed = NothingListed
    /\ tokens = NoTokens

TopNext ==
    \E type \in {"", "author", "comment"}, limitStr \in {<<>>, <<"1">>, <<"2">>, <<"0">>},
       board \in {"", "b1"} :
        ListSubscriptionStats(type, limitStr, board)

TopSpec == TopInit /\ [][TopNext]_vars

\* the stat rows the read is asked for: of the kind, of the board when one
\* is given, with a count over 0
Eligible ==
    {StatRow(stats, k) : k \in {x \in DOMAIN stats :
        /\ x[2] = listed.type
        /\ listed.board # "" => x[1] = listed.board
        /\ stats[x] > 0}}

(***************************************************************************)
(* C32.  The Top-N read answers with the n rows of the highest counts      *)
(* among the stat rows of the kind (of the board, when one is given) whose *)
(* count is over 0, in non-increasing order of count.                      *)
(***************************************************************************)
C32_TopNOfKind ==
    listed.status = "StatusOK" =>
        LET got == {listed.rows[i] : i \in DOMAIN listed.rows}
        IN  /\ got \subseteq Eligible
            /\ Cardinality(got) = Len(listed.rows)
            /\ Len(listed.rows) = IF listed.limit < Cardinality(Eligible)
                                  THEN listed.limit ELSE Cardinality(Eligible)
            /\ \A i, j \in DOMAIN listed.rows :
                   i < j => listed.rows[i].count >= listed.rows[j].count
            /\ \A r \in Eligible \ got : \A g \in got : g.count >= r.count

(***************************************************************************)
(* C33.  For a user with a confirmed binding, whatever the interleaving of *)
(* concurrent Creates, Updates and Deletes and of the sync goroutines they *)
(* start: once every handler has returned and every goroutine has finished *)
(* the user is in <kind>:<board>:subs exactly when the user holds a        *)
(* subscription of that (board, kind), and the cached profile lists        *)
(* exactly the enabled subscriptions of the user.                          *)
(***************************************************************************)
Confirmed(u) ==
    FindByUserAndService(u) # <<>> /\ ParseIntOK(FindByUserAndService(u))

ProfiledKinds == {"keyword", "author", "pushsum"}

\* the subscriptions a profile carries, as (board, kind, value)
Carried(profile) ==
    UNION {{<<b.Board, "keyword", v>> : v \in Range(b.Keywords)} \cup
           {<<b.Board, "author", v>> : v \in Range(b.Authors)} \cup
           {<<b.Board, "pushsum", n>> : n \in {b.PushSum.Up, b.PushSum.Down} \ {0}}
           : b \in profile.Subscribes}

\* the enabled subscriptions of a user, thresholds as numbers
EnabledOf(u) ==
    {<<x.board, x.subType,
       IF x.subType = "pushsum" THEN Sscanf(x.value) ELSE x.value>> :
        x \in {r \in Rows(subs) : r.user = u /\ r.enabled
                                  /\ r.subType \in ProfiledKinds}}

SetsAgree(u) ==
    \A k \in ProfiledKinds \cup {"article"}, b \in ExistingBoards :
        <<k, b, GetWebAccount(u)>> \in cacheSubs
            <=> \E x \in Rows(subs) : x.user = u /\ x.board = b /\ x.subType = k

ProfileAgrees(u) ==
    IF GetWebAccount(u) \in DOMAIN cacheUser
    THEN Carried(cacheUser[GetWebAccount(u)]) = EnabledOf(u)
    ELSE EnabledOf(u) = {}

C33_CacheAgreesOnceSynced ==
    Quiescent => \A u \in Users : Confirmed(u) => SetsAgree(u) /\ ProfileAgrees(u)

(***************************************************************************)
(* Creates under a low maximum: the administrator has set the maximum of   *)
(* the role user to 1, the users hold nothing yet and send Creates         *)
(***************************************************************************)
LimitInit ==
    /\ workload \in Workloads
    /\ users = (1 :> [role |-> "user", enabled |-> TRUE]) @@
               (2 :> [role |-> "admin", enabled |-> TRUE])
    /\ roleLimits = ("admin" :> -1) @@ ("vip" :> 20) @@ ("user" :> 1)
    /\ bindings = {Binding(1, ServiceTelegram, <<"7">>, 0, 0, TRUE)}
    /\ subs = <<>>
    /\ nextID = 1
    /\ stats = <<>>
    /\ cacheBoards = {}
    /\ cacheSubs = {}
    /\ cacheUser = <<>>
    /\ calls = EmptyBag
    /\ tasks = EmptyBag
    /\ result = "none"
    /\ nOps = 0
    /\ statDone = [src |-> "none", old |-> Req("", "", <<>>),
                   new |-> Req("", "", <<>>), net |-> <<>>]
    /\ roundTrip = NoRoundTrip
    /\ now = 0
    /\ issued = <<>>
    /\ workers = [w \in 1..NumWorkers |-> {}]
    /\ delivered = NoneDelivered
    /\ proc = "running"
    /\ alerts = 0
    /\ NoArticles
    /\ NoTransactions
    /\ listed = NothingListed
    /\ tokens = NoTokens

LimitNext ==
    \/ \E u \in Users, r \in workload : CreateCheck(u, Triple(r))
    \/ \E c \in BagToSet(calls) : CreateInsert(c)
    \/ \E t \in BagToSet(tasks) : SyncCreateAdd(t)
    \/ \E t \in BagToSet(tasks) : UpdateUserDataList(t)
    \/ \E t \in BagToSet(tasks) : UpdateUserDataSet(t)
    \/ \E t \in BagToSet(tasks) : StatsStep(t)

LimitSpec == LimitInit /\ [][LimitNext]_vars

(***************************************************************************)
(* C34.  When Creates of one user run concurrently, the number of rows the *)
(* user holds never comes to exceed max_subscriptions of the user's role   *)
(* (for max_subscriptions >= 0): an insert made while the user is within   *)
(* the maximum leaves the user within the maximum.                         *)
(***************************************************************************)
WithinLimit(s, u) ==
    GetMaxSubscriptions(users[u].role) >= 0
        => CountByUserID(s, u) <= GetMaxSubscriptions(users[u].role)

C34_ConcurrentCreatesKeepLimit ==
    [][\A c \in BagToSet(calls) :
          (CreateInsert(c) /\ WithinLimit(subs, c.user)) => WithinLimit(subs', c.user)]_vars

(***************************************************************************)
(* Bind codes sent from the chats: two registered users without a binding  *)
(* and without subscriptions, bind codes made on the dashboard and sent    *)
(* to the bot with /bind <code> from either chat                           *)
(***************************************************************************)
CodeInit ==
    /\ workload = WorkloadBoards
    /\ users = (1 :> [role |-> "user", enabled |-> TRUE]) @@
               (2 :> [role |-> "admin", enabled |-> TRUE])
    /\ roleLimits = ("admin" :> -1) @@ ("vip" :> 20) @@ ("user" :> 3)
    /\ bindings = {}
    /\ subs = <<>>
    /\ nextID = 1
    /\ stats = <<>>
    /\ cacheBoards = {}
    /\ cacheSubs = {}
    /\ cacheUser = <<>>
    /\ calls = EmptyBag
    /\ tasks = EmptyBag
    /\ result = "none"
    /\ nOps = 0
    /\ statDone = [src |-> "none", old |-> Req("", "", <<>>),
                   new |-> Req("", "", <<>>), net |-> <<>>]
    /\ roundTrip = NoRoundTrip
    /\ now = 0
    /\ issued = <<>>
    /\ workers = [w \in 1..NumWorkers |-> {}]
    /\ delivered = NoneDelivered
    /\ proc = "running"
    /\ alerts = 0
    /\ NoArticles
    /\ NoTransactions
    /\ listed = NothingListed
    /\ tokens = NoTokens

CodeNext ==
    \/ \E u \in Users : GenerateBindCodeCheck(u, ServiceTelegram)
    \/ \E c \in BagToSet(calls) : UpdateBindCodeUpdate(c)
    \/ \E c \in BagToSet(calls) : UpdateBindCodeInsert(c)
    \/ \E chat \in Chats, code \in 1..Len(issued) : HandleBindCodeFind(chat, code)
    \/ \E c \in BagToSet(calls) : HandleBindCodeConfirm(c)
    \/ Tick
    \/ \E t \in BagToSet(tasks) : SyncAllStart(t)

CodeSpec == CodeInit /\ [][CodeNext]_vars

(***************************************************************************)
(* C35.  A bind code confirms at most one binding.  In a run with one code *)
(* issued, a chat that sends the code is told success only while the row   *)
(* of the code still waits for its chat, so that of two chats sending the  *)
(* same code, also at the same time, at most one is told success; the      *)
(* service_id of the row is then the id of that chat.                      *)
(***************************************************************************)
C35_CodeConfirmsOnce ==
    [][\A c \in BagToSet(calls) :
          (HandleBindCodeConfirm(c) /\ result' = "Bound" /\ Len(issued) = 1) =>
              /\ \A b \in BindingsOf(c.user, c.service) : b.serviceID = <<>>
              /\ \A b \in {x \in bindings' : x.user = c.user /\ x.service = c.service} :
                     b.serviceID = FormatInt(c.chat)]_vars

(***************************************************************************)
(* Web-app bind tokens.  /bind in a chat makes a token and keeps           *)
(* webapp:bind:<token> -> chat id in Redis; the page the button opens      *)
(* posts the token to TelegramWebAppConfirm as the logged-in user.         *)
(***************************************************************************)
tokenFixed == <<workload, users, roleLimits, subs, nextID, stats, cache, ghosts, now,
               issued, workers, delivered, proc, alerts, pushsum, database, listed>>

\* sendWebAppBindButton: SETEX webapp:bind:<token> 600 <chat id>
sendWebAppBindButton(chat) ==
    /\ Len(tokens) < MaxTokens
    /\ tokens' = Append(tokens, [chat |-> chat, live |-> TRUE])
    /\ UNCHANGED <<bindings, calls, tasks, result, nOps, tokenFixed>>

\* the key runs out after webAppBindTokenExpiry
ExpireToken(token) ==
    /\ tokens[token].live
    /\ tokens' = [tokens EXCEPT ![token].live = FALSE]
    /\ UNCHANGED <<bindings, calls, tasks, result, nOps, tokenFixed>>

\* TelegramWebAppConfirm up to the GET of GetWebAppBindChatID
GetWebAppBindChatIDGet(userID, token) ==
    /\ nOps < MaxBindOps
    /\ nOps' = nOps + 1
    /\ IF ~tokens[token].live
       THEN result' = "InvalidToken" /\ UNCHANGED calls
       ELSE /\ calls' = calls (+) One(BindCall("TelegramWebAppConfirm", "del", userID,
                                    ServiceTelegram, tokens[token].chat, token, 0))
            /\ UNCHANGED result
    /\ UNCHANGED <<bindings, tasks, tokens, tokenFixed>>

\* GetWebAppBindChatID: DEL webapp:bind:<token>, its reply not looked at
GetWebAppBindChatIDDel(c) ==
    /\ InFlight(c) /\ c.op = "TelegramWebAppConfirm" /\ c.pc = "del"
    /\ tokens' = [tokens EXCEPT ![c.code].live = FALSE]
    /\ calls' = Returned(c) (+) One([c EXCEPT !.pc = "check"])
    /\ UNCHANGED <<bindings, tasks, result, nOps, tokenFixed>>

\* TelegramWebAppConfirm: FindByUserAndService and FindByServiceID
WebAppConfirmFind(c) ==
    /\ InFlight(c) /\ c.op = "TelegramWebAppConfirm" /\ c.pc = "check"
    /\ IF \E b \in BindingsOf(c.user, ServiceTelegram) : b.serviceID # <<>>
       THEN result' = "AlreadyBound" /\ calls' = Returned(c)
       ELSE IF \E b \in FindByServiceID(ServiceTelegram, FormatInt(c.chat)) :
                   b.user # c.user
       THEN result' = "Conflict" /\ calls' = Returned(c)
       ELSE /\ calls' = Returned(c) (+) One([c EXCEPT !.pc = "confirm"])
            /\ UNCHANGED result
    /\ UNCHANGED <<bindings, tasks, tokens, nOps, tokenFixed>>

TokenNext ==
    \/ \E chat \in Chats : sendWebAppBindButton(chat)
    \/ \E token \in 1..Len(tokens) : ExpireToken(token)
    \/ \E u \in Users, token \in 1..Len(tokens) : GetWebAppBindChatIDGet(u, token)
    \/ \E c \in BagToSet(calls) : GetWebAppBindChatIDDel(c)
    \/ \E c \in BagToSet(calls) : WebAppConfirmFind(c)
    \/ \E c \in BagToSet(calls) : WebAppConfirmWrite(c)
    \/ \E t \in BagToSet(tasks) : SyncAllStart(t)

TokenSpec == CodeInit /\ [][TokenNext]_vars

(***************************************************************************)
(* C36.  A web-app bind token is redeemed at most once: at no time do two  *)
(* confirm requests, also concurrent ones, hold the chat id of the same    *)
(* token.  (A request can read a token only before the DEL of the request  *)
(* that read it first, so two redemptions always overlap.)                 *)
(***************************************************************************)
Redeemers(token) ==
    {c \in BagToSet(calls) : c.op = "TelegramWebAppConfirm" /\ c.code = token}

C36_TokenRedeemedOnce ==
    \A token \in 1..Len(tokens) :
        /\ Cardinality(Redeemers(token)) <= 1
        /\ \A c \in Redeemers(token) : CopiesIn(c, calls) = 1

(***************************************************************************)
(* C37.  Whenever the web-app confirm answers success for user U with the  *)
(* token of chat C, the store holds a row (U, telegram) with service_id C  *)
(* and enabled = true, also when U had no binding row before.              *)
(***************************************************************************)
C37_WebAppSuccessStoresBinding ==
    [][\A c \in BagToSet(calls) :
          (WebAppConfirmWrite(c) /\ result' = "Bound") =>
              \E b \in bindings' : /\ b.user = c.user
                                   /\ b.service = ServiceTelegram
                                   /\ b.serviceID = FormatInt(c.chat)
                                   /\ b.enabled]_vars

(***************************************************************************)
(* C38.  A user who is not bound yet gets a bind code whatever the other   *)
(* users did: the INSERT of the pending row of a user who has no row ends  *)
(* with the code handed out, also while another user holds a pending code  *)
(* for the same service.                                                   *)
(***************************************************************************)
C38_PendingCodesCoexist ==
    [][\A c \in BagToSet(calls) :
          (UpdateBindCodeInsert(c) /\ BindingsOf(c.user, c.service) = {})
              => result' = "BindCode"]_vars

(***************************************************************************)
(* C39.  The profile a sync writes for a user with a confirmed binding     *)
(* represents every enabled subscription among the rows the sync listed;   *)
(* with a push (+N) and a boo (-M) threshold on one board the profile      *)
(* carries both.                                                           *)
(***************************************************************************)
C39_ProfileCarriesEverySubscription ==
    [][\A t \in BagToSet(tasks) :
          UpdateUserDataSet(t) =>
              \A x \in Rows(t.list) :
                  (x.enabled /\ x.subType \in ProfiledKinds)
                      => Listed(x, cacheUser'[GetWebAccount(t.acc.id)])]_vars

(***************************************************************************)
(* Push-count commands of the chat: "新增推文數 <board> <total>" (add push  *)
(* count) and "新增噓文數 <board> <total>" (add boo count)                  *)
(***************************************************************************)
AddPushSum == "AddPushSum"
AddBooSum  == "AddBooSum"

\* the totals the chats send; the command pattern lets 0..100 through
Totals == {0, 5}

\* the pushsum row user 1 holds when the run starts: made by an earlier
\* command of the chat, or with the value "+0" through the HTTP API
PushSeeds == {<<"+", "5">>, <<"-", "3">>, <<"+", "0">>}

\* GetUserIDByTelegramChatID
GetUserIDByTelegramChatID(chat) ==
    {b.user : b \in FindByServiceID(ServiceTelegram, FormatInt(chat))}

\* FindByBoardAndValue: ... AND sub_type = $3 AND value = $4
FindByBoardAndValue(userID, board, subType, value) ==
    {x \in Rows(subs) : /\ x.user = userID /\ x.board = board
                        /\ x.subType = subType /\ x.value = value}

\* handlePushSum for one board, up to the write of Create or of Delete
handlePushSum(command, chat, board, sum) ==
    LET owner == GetUserIDByTelegramChatID(chat)
        u     == CHOOSE x \in owner : TRUE
        value == (IF command = AddPushSum THEN <<"+">> ELSE <<"-">>) \o FormatInt(sum)
        found == FindByBoardAndValue(u, board, "pushsum", value)
        quiet == UNCHANGED <<aside, workload, store, stats, cache, calls, tasks, ghosts>>
    IN  IF owner = {}
        THEN nOps < MaxOps /\ nOps' = nOps + 1 /\ result' = "ErrUserNotBound" /\ quiet
        ELSE IF sum > 0
        THEN IF CheckLimit(u, users[u].role) # "ok"
             THEN /\ nOps < MaxOps /\ nOps' = nOps + 1
                  /\ result' = CheckLimit(u, users[u].role) /\ quiet
             ELSE CreateCheck(u, Req(board, "pushsum", value))
        ELSE IF found = {}
             THEN nOps < MaxOps /\ nOps' = nOps + 1 /\ result' = "ok" /\ quiet
             ELSE DeleteCheck((CHOOSE x \in found : TRUE).id, u)

ChatInit ==
    /\ workload = WorkloadPushSum
    /\ users = (1 :> [role |-> "user", enabled |-> TRUE]) @@
               (2 :> [role |-> "admin", enabled |-> TRUE])
    /\ roleLimits = ("admin" :> -1) @@ ("vip" :> 20) @@ ("user" :> 3)
    /\ bindings = {Binding(1, ServiceTelegram, <<"7">>, 0, 0, TRUE)}
    /\ \E v \in PushSeeds :
          LET row == Row(1, 1, Req("b1", "pushsum", v), TRUE)
          IN  /\ subs = <<row>>
              /\ stats = (StatKey("b1", "pushsum", v) :> 1)
              /\ cacheUser = (GetWebAccount(1) :>
                                 Profile([id |-> 1, role |-> "user", enabled |-> TRUE],
                                         7, <<row>>))
    /\ nextID = 2
    /\ cacheBoards = {"b1"}
    /\ cacheSubs = {<<"pushsum", "b1", GetWebAccount(1)>>}
    /\ calls = EmptyBag
    /\ tasks = EmptyBag
    /\ result = "none"
    /\ nOps = 0
    /\ statDone = [src |-> "none", old |-> Req("", "", <<>>),
                   new |-> Req("", "", <<>>), net |-> <<>>]
    /\ roundTrip = NoRoundTrip
    /\ now = 0
    /\ issued = <<>>
    /\ workers = [w \in 1..NumWorkers |-> {}]
    /\ delivered = NoneDelivered
    /\ proc = "running"
    /\ alerts = 0
    /\ NoArticles
    /\ NoTransactions
    /\ listed = NothingListed
    /\ tokens = NoTokens

ChatNext ==
    \/ \E command \in {AddPushSum, AddBooSum}, chat \in Chats,
          board \in ExistingBoards, sum \in Totals :
           handlePushSum(command, chat, board, sum)
    \/ \E c \in BagToSet(calls) : CreateInsert(c)
    \/ \E c \in BagToSet(calls) : DeleteWrite(c)
    \/ \E t \in BagToSet(tasks) : TaskStep(t)

ChatSpec == ChatInit /\ [][ChatNext]_vars

(***************************************************************************)
(* C40.  The add-push-count or add-boo-count command with total 0 for a    *)
(* board deletes the pushsum subscription the user holds on that board:    *)
(* when the user of the chat holds a push (for add-push-count) or boo (for *)
(* add-boo-count) threshold on the board, the command starts its Delete.   *)
(***************************************************************************)
Sign(command) == IF command = AddPushSum THEN "+" ELSE "-"

Existing(command, chat, board) ==
    {x \in Rows(subs) : /\ x.user \in GetUserIDByTelegramChatID(chat)
                        /\ x.board = board /\ x.subType = "pushsum"
                        /\ Head(x.value) = Sign(command)}

C40_ZeroDeletesPushSum ==
    [][\A command \in {AddPushSum, AddBooSum}, chat \in Chats, board \in ExistingBoards :
          (handlePushSum(command, chat, board, 0) /\ Existing(command, chat, board) # {})
              => \E c \in BagToSet(calls') :
                     /\ c.op = "Delete"
                     /\ \E x \in Existing(command, chat, board) : c.id = x.id]_vars

====
